---- MODULE Spec2Model ----
(***************************************************************************)
(* Model of the contract-set ingestion and grounded retrieval service:     *)
(*   - DocumentProcessor._split_text            (token window chunker)     *)
(*   - DocumentProcessor._detect_document_type  (type classifier)          *)
(*   - DocumentProcessor.process_document_late_chunking (section split)    *)
(*   - DocumentIndexer.index_document           (type detection, re-index) *)
(*   - QueryEngine.query                        (retrieval and grounding)  *)
(*   - DocumentIndexer / preload script         (vector store writes)      *)
(*   - VectorStorage.store_chunks                (vector store writes)      *)
(*   - VectorStorage._ensure_collection, DocumentIndexer.__init__           *)
(*                                               (collection bootstrap)     *)
(* Text is modelled as sequences of one-character strings so that Python's *)
(* `in`, lower(), strip() and split() are computed, not assumed.           *)
(***************************************************************************)
EXTENDS Integers, Sequences, FiniteSets, TLC

VARIABLES
    \* DocumentProcessor._split_text
    tokens, chunk_size, chunk_overlap, chunks, split_pc,
    \* DocumentProcessor._detect_document_type
    filename, document_type_hints, doc_type, level, detect_pc,
    \* DocumentIndexer.index_document: the type detection on the first page
    pdf_title, index_doc_type, index_level, index_detect_pc,
    \* DocumentProcessor.process_document_late_chunking: the text, the two
    \* chunk lists it returns, its position
    doc_text, section_chunks, detail_chunks, chunk_pc,
    \* the "documents" collection of the vector store: a set of points
    store,
    \* QueryEngine.query: arguments, position, locals, outcome
    query, document_ids, q_pc, calls, search_result, reranked,
    relevant_results, result, raised,
    \* history of the query: the provider whose call raised, and what
    \* index_document was doing when the vector search ran
    failed, searched_at,
    \* DocumentIndexer / preload script: the call in progress, uuid4 source,
    \* and the record of finished runs
    indexing, next_uuid, runs,
    \* the "documents" collection itself (existence, vector size, payload
    \* indexes), the bootstrap in progress, and the record of finished ones
    collection, boot, boots

splitVars  == <<tokens, chunk_size, chunk_overlap, chunks, split_pc>>
detectVars == <<filename, document_type_hints, doc_type, level, detect_pc,
                pdf_title, index_doc_type, index_level, index_detect_pc>>
chunkVars  == <<doc_text, section_chunks, detail_chunks, chunk_pc>>
queryVars  == <<query, document_ids, q_pc, calls, search_result, reranked,
                relevant_results, result, raised, failed, searched_at>>
indexVars  == <<indexing, next_uuid, runs>>
bootVars   == <<collection, boot, boots>>
vars == <<splitVars, detectVars, chunkVars, store, queryVars, indexVars, bootVars>>

----------------------------------------------------------------------------
(* Bounds of the model *)

MaxTokens == 5
MaxTokenId == 2
MaxChunkSize == 3
MaxHints == 2
MaxQuotes == 2
MaxHits == 4
MaxWideDocs == 16
MaxChunks == 2
MaxRuns == 2
MaxLines == 4
MaxBoots == 3

----------------------------------------------------------------------------
(* Python string and list primitives *)

SeqsUpTo(S, n) == UNION {[1..k -> S] : k \in 0..n}

Min(a, b) == IF a < b THEN a ELSE b
Max(a, b) == IF a > b THEN a ELSE b

\* str.lower() on the characters that occur in the model's texts
LowerMap ==
    ("A" :> "a") @@ ("B" :> "b") @@ ("C" :> "c") @@ ("D" :> "d") @@
    ("E" :> "e") @@ ("F" :> "f") @@ ("G" :> "g") @@ ("H" :> "h") @@
    ("I" :> "i") @@ ("J" :> "j") @@ ("K" :> "k") @@ ("L" :> "l") @@
    ("M" :> "m") @@ ("N" :> "n") @@ ("O" :> "o") @@ ("P" :> "p") @@
    ("Q" :> "q") @@ ("R" :> "r") @@ ("S" :> "s") @@ ("T" :> "t") @@
    ("U" :> "u") @@ ("V" :> "v") @@ ("W" :> "w") @@ ("X" :> "x") @@
    ("Y" :> "y") @@ ("Z" :> "z")

LowerChar(c) == IF c \in DOMAIN LowerMap THEN LowerMap[c] ELSE c

Lower(s) == [i \in 1..Len(s) |-> LowerChar(s[i])]

\* Python's `t in s` on strings: t occurs as a contiguous substring of s
Contains(s, t) ==
    \E i \in 0..(Len(s) - Len(t)) : SubSeq(s, i + 1, i + Len(t)) = t

\* any(term in s for term in terms)
AnyIn(terms, s) == \E t \in terms : Contains(s, t)

\* Python's lst[-k:] for k >= 0; lst[-0:] is lst[0:], the whole list
TailSlice(lst, k) ==
    IF k = 0 THEN lst
    ELSE SubSeq(lst, Max(1, Len(lst) - k + 1), Len(lst))

----------------------------------------------------------------------------
(* DocumentProcessor._split_text *)

TokenIds == 1..MaxTokenId

\* The for loop over tokens: i is the index of the next token; st holds the
\* locals chunks, current_chunk and current_size.
RECURSIVE SplitLoop(_, _, _, _, _)
SplitLoop(toks, i, st, size, overlap) ==
    IF i > Len(toks) THEN st
    ELSE
        LET emitted ==
                IF st.current_size >= size
                THEN LET seed == TailSlice(st.current_chunk, overlap)
                     IN  [chunks |-> Append(st.chunks, st.current_chunk),
                          current_chunk |-> seed,
                          current_size |-> Len(seed)]
                ELSE st
            next == [chunks |-> emitted.chunks,
                     current_chunk |-> Append(emitted.current_chunk, toks[i]),
                     current_size |-> emitted.current_size + 1]
        IN  SplitLoop(toks, i + 1, next, size, overlap)

\* The chunks returned, each as the token window handed to encoding.decode
SplitText(toks, size, overlap) ==
    LET st == SplitLoop(toks, 1,
                        [chunks |-> <<>>, current_chunk |-> <<>>, current_size |-> 0],
                        size, overlap)
    IN  IF st.current_chunk # <<>>
        THEN Append(st.chunks, st.current_chunk)
        ELSE st.chunks

SplitIdle ==
    /\ tokens = <<>>
    /\ chunk_size = 1
    /\ chunk_overlap = 0
    /\ chunks = <<>>
    /\ split_pc = "idle"

SplitInit ==
    /\ tokens \in SeqsUpTo(TokenIds, MaxTokens)
    /\ chunk_size \in 1..MaxChunkSize
    /\ chunk_overlap \in 0..(chunk_size - 1)
    /\ chunks = <<>>
    /\ split_pc = "start"

DoSplitText ==
    /\ split_pc = "start"
    /\ chunks' = SplitText(tokens, chunk_size, chunk_overlap)
    /\ split_pc' = "done"
    /\ UNCHANGED <<tokens, chunk_size, chunk_overlap, detectVars, chunkVars, store, queryVars, indexVars, bootVars>>

----------------------------------------------------------------------------
(* DocumentProcessor._detect_document_type: the substrings it looks for *)

\* master
T_master == <<"m","a","s","t","e","r">>
\* msa
T_msa == <<"m","s","a">>
\* _mst_
T_mst == <<"_","m","s","t","_">>
\* amendment
T_amendment == <<"a","m","e","n","d","m","e","n","t">>
\* amd
T_amd == <<"a","m","d">>
\* addendum
T_addendum == <<"a","d","d","e","n","d","u","m">>
\* sow
T_sow == <<"s","o","w">>
\* statement
T_statement == <<"s","t","a","t","e","m","e","n","t">>
\* change
T_change == <<"c","h","a","n","g","e">>
\* co_
T_co_ == <<"c","o","_">>
\* work
T_work == <<"w","o","r","k">>
\* amend
T_amend == <<"a","m","e","n","d">>
\* order
T_order == <<"o","r","d","e","r">>
\* co
T_co == <<"c","o">>
\* to master
T_to_master == <<"t","o"," ","m","a","s","t","e","r">>
\* to the master
T_to_the_master == <<"t","o"," ","t","h","e"," ","m","a","s","t","e","r">>
\* pursuant to master
T_pursuant_to_master == <<"p","u","r","s","u","a","n","t"," ","t","o"," ","m","a","s","t","e","r">>
\* under master
T_under_master == <<"u","n","d","e","r"," ","m","a","s","t","e","r">>
\* reference to master
T_reference_to_master == <<"r","e","f","e","r","e","n","c","e"," ","t","o"," ","m","a","s","t","e","r">>
\* statement of work
T_statement_of_work == <<"s","t","a","t","e","m","e","n","t"," ","o","f"," ","w","o","r","k">>
\* change order
T_change_order == <<"c","h","a","n","g","e"," ","o","r","d","e","r">>
\* modification
T_modification == <<"m","o","d","i","f","i","c","a","t","i","o","n">>
\* supplement
T_supplement == <<"s","u","p","p","l","e","m","e","n","t">>
\* agreement
T_agreement == <<"a","g","r","e","e","m","e","n","t">>
\* addendum to master
T_addendum_to_master == <<"a","d","d","e","n","d","u","m"," ","t","o"," ","m","a","s","t","e","r">>
\* amendment to master
T_amendment_to_master == <<"a","m","e","n","d","m","e","n","t"," ","t","o"," ","m","a","s","t","e","r">>
\* modification to master
T_modification_to_master == <<"m","o","d","i","f","i","c","a","t","i","o","n"," ","t","o"," ","m","a","s","t","e","r">>
\* supplement to master
T_supplement_to_master == <<"s","u","p","p","l","e","m","e","n","t"," ","t","o"," ","m","a","s","t","e","r">>

----------------------------------------------------------------------------
(* Filenames and first-page hint lines the classifier is run on *)

\* MSA_Acme_2023.pdf
F_msa_acme == <<"M","S","A","_","A","c","m","e","_","2","0","2","3",".","p","d","f">>
\* Amendment_1_to_MSA.pdf
F_amendment_msa == <<"A","m","e","n","d","m","e","n","t","_","1","_","t","o","_","M","S","A",".","p","d","f">>
\* Amendment_2.pdf
F_amendment == <<"A","m","e","n","d","m","e","n","t","_","2",".","p","d","f">>
\* SOW_3.pdf
F_sow == <<"S","O","W","_","3",".","p","d","f">>
\* Change_7.pdf
F_change == <<"C","h","a","n","g","e","_","7",".","p","d","f">>
\* contract.pdf
F_contract == <<"c","o","n","t","r","a","c","t",".","p","d","f">>
\* notes.pdf
F_notes == <<"n","o","t","e","s",".","p","d","f">>
\* Amendment to Master Agreement
H_amend_to_master == <<"A","m","e","n","d","m","e","n","t"," ","t","o"," ","M","a","s","t","e","r"," ","A","g","r","e","e","m","e","n","t">>
\* Master Agreement
H_master == <<"M","a","s","t","e","r"," ","A","g","r","e","e","m","e","n","t">>
\* Statement of Work
H_sow == <<"S","t","a","t","e","m","e","n","t"," ","o","f"," ","W","o","r","k">>
\* Change Order
H_change == <<"C","h","a","n","g","e"," ","O","r","d","e","r">>
\* Addendum
H_addendum == <<"A","d","d","e","n","d","u","m">>
\* MSA
H_msa == <<"M","S","A">>
\* Addendum to SOW
H_addendum_sow == <<"A","d","d","e","n","d","u","m"," ","t","o"," ","S","O","W">>

Filenames ==
    {F_msa_acme, F_amendment_msa, F_amendment, F_sow, F_change, F_contract, F_notes}

HintTexts ==
    {H_amend_to_master, H_master, H_sow, H_change, H_addendum, H_msa, H_addendum_sow}

----------------------------------------------------------------------------
(* DocumentProcessor._detect_document_type *)

\* type_scores keys in dict insertion order
TypeOrder == <<"master", "amendment", "sow", "change_order">>
Types == {TypeOrder[i] : i \in 1..Len(TypeOrder)}

MasterFilenamePoints == 19
OtherFilenamePoints == 20
AmendmentHintPoints == 10
MasterReferenceBonus == 5
MasterHintPoints == 8
SowHintPoints == 10
ChangeOrderHintPoints == 10

MasterFileTerms == {T_master, T_msa, T_mst}
AmendmentFileTerms == {T_amendment, T_amd, T_addendum}
SowFileTerms == {T_sow, T_statement}
ChangeFileTerms == {T_change, T_co_}

\* The if/elif chain of the filename pass: the bucket that fires, or "none"
FilenameBucket(fname) ==
    LET filename_lower == Lower(fname)
    IN  IF AnyIn(MasterFileTerms, filename_lower) THEN "master"
        ELSE IF AnyIn(AmendmentFileTerms, filename_lower) THEN "amendment"
        ELSE IF AnyIn(SowFileTerms, filename_lower) THEN "sow"
        ELSE IF AnyIn(ChangeFileTerms, filename_lower) THEN "change_order"
        ELSE "none"

\* The filename pass with independent ifs: every bucket with a term scores
FilenameScoresEveryBucket(fname) ==
    LET filename_lower == Lower(fname)
    IN  [t \in Types |->
            CASE t = "master" ->
                    IF AnyIn(MasterFileTerms, filename_lower)
                    THEN MasterFilenamePoints ELSE 0
              [] t = "amendment" ->
                    IF AnyIn(AmendmentFileTerms, filename_lower)
                    THEN OtherFilenamePoints ELSE 0
              [] t = "sow" ->
                    IF AnyIn(SowFileTerms, filename_lower)
                    THEN OtherFilenamePoints ELSE 0
              [] t = "change_order" ->
                    IF AnyIn(ChangeFileTerms, filename_lower)
                    THEN OtherFilenamePoints ELSE 0]

\* type_scores after the filename pass
FilenameScores(fname) ==
    LET bucket == FilenameBucket(fname)
    IN  [t \in Types |->
            IF t # bucket THEN 0
            ELSE IF t = "master" THEN MasterFilenamePoints
            ELSE OtherFilenamePoints]

ReferencePatterns ==
    {T_to_master, T_to_the_master, T_pursuant_to_master, T_under_master,
     T_reference_to_master}

\* HintScores with the amendment hint weighted like a filename match
HintScoresHeavyAmendment(hint) ==
    LET hint_lower == Lower(hint)
        is_reference_to_master == AnyIn(ReferencePatterns, hint_lower)
        has_amendment == Contains(hint_lower, T_amendment) \/ Contains(hint_lower, T_addendum)
        has_master == Contains(hint_lower, T_master)
        has_sow == Contains(hint_lower, T_sow) \/ Contains(hint_lower, T_statement_of_work)
        has_change == Contains(hint_lower, T_change_order)
    IN  [t \in Types |->
            CASE t = "amendment" ->
                    (IF has_amendment THEN OtherFilenamePoints ELSE 0)
                    + (IF has_master /\ is_reference_to_master THEN MasterReferenceBonus ELSE 0)
              [] t = "master" ->
                    IF has_master /\ ~is_reference_to_master THEN MasterHintPoints ELSE 0
              [] t = "sow" ->
                    IF ~has_master /\ has_sow THEN SowHintPoints ELSE 0
              [] t = "change_order" ->
                    IF ~has_master /\ ~has_sow /\ has_change THEN ChangeOrderHintPoints ELSE 0]

\* HintScores without the reference test: every "master" hint scores master
HintScoresMasterAlways(hint) ==
    LET hint_lower == Lower(hint)
        has_amendment == Contains(hint_lower, T_amendment) \/ Contains(hint_lower, T_addendum)
        has_master == Contains(hint_lower, T_master)
        has_sow == Contains(hint_lower, T_sow) \/ Contains(hint_lower, T_statement_of_work)
        has_change == Contains(hint_lower, T_change_order)
    IN  [t \in Types |->
            CASE t = "amendment" -> IF has_amendment THEN AmendmentHintPoints ELSE 0
              [] t = "master" -> IF has_master THEN MasterHintPoints ELSE 0
              [] t = "sow" ->
                    IF ~has_master /\ has_sow THEN SowHintPoints ELSE 0
              [] t = "change_order" ->
                    IF ~has_master /\ ~has_sow /\ has_change THEN ChangeOrderHintPoints ELSE 0]

\* The points one hint adds to each type (one iteration of the hint loop)
HintScores(hint) ==
    LET hint_lower == Lower(hint)
        is_reference_to_master == AnyIn(ReferencePatterns, hint_lower)
        has_amendment == Contains(hint_lower, T_amendment) \/ Contains(hint_lower, T_addendum)
        has_master == Contains(hint_lower, T_master)
        has_sow == Contains(hint_lower, T_sow) \/ Contains(hint_lower, T_statement_of_work)
        has_change == Contains(hint_lower, T_change_order)
    IN  [t \in Types |->
            CASE t = "amendment" ->
                    (IF has_amendment THEN AmendmentHintPoints ELSE 0)
                    + (IF has_master /\ is_reference_to_master THEN MasterReferenceBonus ELSE 0)
              [] t = "master" ->
                    IF has_master /\ ~is_reference_to_master THEN MasterHintPoints ELSE 0
              [] t = "sow" ->
                    IF ~has_master /\ has_sow THEN SowHintPoints ELSE 0
              [] t = "change_order" ->
                    IF ~has_master /\ ~has_sow /\ has_change THEN ChangeOrderHintPoints ELSE 0]

RECURSIVE SumHints(_, _)
SumHints(hints, t) ==
    IF hints = <<>> THEN 0
    ELSE HintScores(Head(hints))[t] + SumHints(Tail(hints), t)

\* type_scores after both passes
TypeScores(fname, hints) ==
    [t \in Types |-> FilenameScores(fname)[t] + SumHints(hints, t)]

\* The secondary filename check used when max_score == 0
SecondaryFilenameType(fname) ==
    LET lower_filename == Lower(fname)
    IN  IF AnyIn({T_sow, T_statement, T_work}, lower_filename) THEN "sow"
        ELSE IF AnyIn({T_amend, T_amendment}, lower_filename) THEN "amendment"
        ELSE IF AnyIn({T_change, T_order, T_co}, lower_filename) THEN "change_order"
        ELSE "master"

\* max(type_scores.items(), key=...)[0]: the first key, in dict order, whose
\* score is the maximum
FirstMaxType(scores) ==
    LET max_score == CHOOSE m \in {scores[t] : t \in Types} :
                        \A t \in Types : scores[t] <= m
        i == CHOOSE j \in 1..Len(TypeOrder) :
                /\ scores[TypeOrder[j]] = max_score
                /\ \A k \in 1..(j - 1) : scores[TypeOrder[k]] # max_score
    IN  TypeOrder[i]

ResolveType(fname, hints) ==
    LET type_scores == TypeScores(fname, hints)
    IN  IF \A t \in Types : type_scores[t] = 0
        THEN SecondaryFilenameType(fname)
        ELSE FirstMaxType(type_scores)

\* level_map.get(doc_type, 1)
LevelMap(t) ==
    CASE t = "master" -> 1
      [] t = "amendment" -> 2
      [] t = "sow" -> 3
      [] t = "change_order" -> 4
      [] OTHER -> 1

\* index_document: doc[0].get_text().lower(), for a first page whose lines
\* are the given ones
RECURSIVE FirstPageText(_)
FirstPageText(lines) ==
    IF lines = <<>> THEN <<>>
    ELSE Lower(Head(lines)) \o <<"\n">> \o FirstPageText(Tail(lines))

\* index_document: f"{doc_name_lower} {pdf_title} {first_page_text}"
SearchText(document_name, title, first_page_text) ==
    Lower(document_name) \o <<" ">> \o Lower(title) \o <<" ">> \o first_page_text

ModificationTerms == {T_addendum, T_amendment, T_modification, T_supplement}

ModificationToMasterTerms ==
    {T_addendum_to_master, T_amendment_to_master, T_modification_to_master,
     T_supplement_to_master}

\* index_document: the (doc_type, level) its if/elif chain assigns, starting
\* from doc_type = "other", level = 4
IndexDocumentType(search_text) ==
    IF AnyIn(ModificationTerms, search_text)
    THEN IF AnyIn({T_master, T_msa}, search_text)
         THEN IF AnyIn(ModificationToMasterTerms, search_text)
              THEN [doc_type |-> "amendment", level |-> 2]
              ELSE [doc_type |-> "master", level |-> 1]
         ELSE [doc_type |-> "amendment", level |-> 2]
    ELSE IF AnyIn({T_master, T_msa, T_agreement}, search_text)
    THEN [doc_type |-> "master", level |-> 1]
    ELSE IF Contains(search_text, T_sow) \/ Contains(search_text, T_statement_of_work)
    THEN [doc_type |-> "sow", level |-> 3]
    ELSE IF Contains(search_text, T_change_order)
    THEN [doc_type |-> "change_order", level |-> 4]
    ELSE [doc_type |-> "other", level |-> 4]

\* pdf_info.get("title", ""): the files carry no title in their metadata
PdfTitles == {<<>>}

DetectIdle ==
    /\ filename = <<>>
    /\ document_type_hints = <<>>
    /\ doc_type = "unset"
    /\ level = 0
    /\ detect_pc = "idle"
    /\ pdf_title = <<>>
    /\ index_doc_type = "unset"
    /\ index_level = 0
    /\ index_detect_pc = "idle"

DetectInit ==
    /\ filename \in Filenames
    /\ document_type_hints \in SeqsUpTo(HintTexts, MaxHints)
    /\ doc_type = "unset"
    /\ level = 0
    /\ detect_pc = "start"
    /\ pdf_title \in PdfTitles
    /\ index_doc_type = "unset"
    /\ index_level = 0
    /\ index_detect_pc = "start"

\* Master Services Agreement
D_master == <<"M","a","s","t","e","r"," ","S","e","r","v","i","c","e","s"," ","A","g","r","e","e","m","e","n","t">>
\* Statement of Work
D_sow == <<"S","t","a","t","e","m","e","n","t"," ","o","f"," ","W","o","r","k">>

\* Document texts the classifier is handed: empty, and two that open with a title
ClassifierTexts == {<<>>, D_master, D_sow}

\* The classifier with the opening of the text scored as one more hint
DetectFromTextToo(text, fname, hints) ==
    LET text_lower == Lower(SubSeq(text, 1, Min(150, Len(text))))
        detected == ResolveType(fname, Append(hints, text_lower))
    IN  [doc_type |-> detected, level |-> LevelMap(detected)]

\* _detect_document_type(text, filename, document_type_hints): the
\* (doc_type, level) it returns; text_lower is printed and not read again
DetectDocumentTypeResult(text, fname, hints) ==
    LET text_lower == Lower(SubSeq(text, 1, Min(150, Len(text))))
        detected == ResolveType(fname, hints)
    IN  [doc_type |-> detected, level |-> LevelMap(detected)]

DetectDocumentType ==
    /\ detect_pc = "start"
    /\ doc_type' = DetectDocumentTypeResult(doc_text, filename, document_type_hints).doc_type
    /\ level' = DetectDocumentTypeResult(doc_text, filename, document_type_hints).level
    /\ detect_pc' = "done"
    /\ UNCHANGED <<filename, document_type_hints, pdf_title, index_doc_type, index_level,
                   index_detect_pc, splitVars, chunkVars, store, queryVars, indexVars, bootVars>>

\* The classifier about to run on a file with its text, for hint lists of at
\* most one hint
DetectTextInit ==
    /\ filename \in Filenames
    /\ document_type_hints \in SeqsUpTo(HintTexts, 1)
    /\ doc_text \in ClassifierTexts
    /\ doc_type = "unset"
    /\ level = 0
    /\ detect_pc = "start"
    /\ pdf_title = <<>>
    /\ index_doc_type = "unset"
    /\ index_level = 0
    /\ index_detect_pc = "idle"
    /\ section_chunks = <<>>
    /\ detail_chunks = <<>>
    /\ chunk_pc = "idle"

\* index_document on the same file: the type and level given to DocumentMetadata
IndexDocumentDetect ==
    /\ index_detect_pc = "start"
    /\ LET detected == IndexDocumentType(
                           SearchText(filename, pdf_title,
                                      FirstPageText(document_type_hints)))
       IN  /\ index_doc_type' = detected.doc_type
           /\ index_level' = detected.level
    /\ index_detect_pc' = "done"
    /\ UNCHANGED <<filename, document_type_hints, pdf_title, doc_type, level,
                   detect_pc, splitVars, chunkVars, store, queryVars, indexVars, bootVars>>

----------------------------------------------------------------------------
(* QueryEngine.query: literals *)

\* type
K_type == <<"t","y","p","e">>
\* level
K_level == <<"l","e","v","e","l">>
\* document type
K_document_type == <<"d","o","c","u","m","e","n","t"," ","t","y","p","e">>
\* hierarchy
K_hierarchy == <<"h","i","e","r","a","r","c","h","y">>

----------------------------------------------------------------------------
(* Query texts, stored chunk texts and quoted spans the engine is run on *)

\* Doc Type?
Q_type == <<"D","o","c"," ","T","y","p","e","?">>
\* level
Q_level == <<"l","e","v","e","l">>
\* Hierarchy
Q_hierarchy == <<"H","i","e","r","a","r","c","h","y">>
\* terms
Q_terms == <<"t","e","r","m","s">>
\* a b
X_ab == <<"a"," ","b">>
\* b a
X_ba == <<"b"," ","a">>
\* c
X_c == <<"c">>
\*  
X_sp == <<" ">>
\* a  b
X_a_b_gap == <<"a"," "," ","b">>

\*  b  a  (leading blank, double blank)
X_ba_loose == <<" ","b"," "," ","a">>

Queries == {Q_type, Q_level, Q_hierarchy, Q_terms}

\* Document ids, in a fixed order used to enumerate inputs
DocNames ==
    <<"d1", "d2", "d3", "d4", "d5", "d6", "d7", "d8", "d9", "d10", "d11", "d12",
      "d13", "d14", "d15", "d16", "d17", "d18", "d19", "d20">>

Docs == {"d1", "d2", "d3"}

\* The points in the collection when the query runs: two chunks of d1, one of
\* d2 with the same text as a chunk of d1, none of d3.
QueryStore ==
    {[id |-> 1, document_id |-> "d1", contract_set_id |-> "s1", text |-> X_ab,
      version |-> "1"],
     [id |-> 2, document_id |-> "d1", contract_set_id |-> "s1", text |-> X_ba_loose,
      version |-> "1"],
     [id |-> 3, document_id |-> "d2", contract_set_id |-> "s1", text |-> X_ab,
      version |-> "1"]}

\* Relevance scores in thousandths: at the floor, just above it, high
RelevanceFloor == 10
Scores == {RelevanceFloor, RelevanceFloor + 1, 900}

\* Spans the language model may put between [[ and ]]
SpanTexts == {X_ab, X_a_b_gap, X_ba, X_c, X_sp, <<>>}

\* An answer text with the given spans quoted in order
RECURSIVE Render(_)
Render(spans) ==
    IF spans = <<>> THEN <<"x">>
    ELSE <<"x", "[", "[">> \o Head(spans) \o <<"]", "]">> \o Render(Tail(spans))

Answers == {Render(spans) : spans \in SeqsUpTo(SpanTexts, MaxQuotes)}

----------------------------------------------------------------------------
(* Vector store and provider calls made by QueryEngine.query *)

ScrollLimit == 100
SearchLimit == 100
RerankTopN == 30
MaxPerDocument == 2
TotalLimit == 15

\* The points of a set as a sequence in id order (ids are unique in a store)
SeqById(points) ==
    LET rank == [pt \in points |-> Cardinality({q \in points : q.id <= pt.id})]
    IN  [i \in 1..Cardinality(points) |-> CHOOSE pt \in points : rank[pt] = i]

\* Filter(must=[FieldCondition(key="document_id", match=MatchAny(any=ids))])
MatchingAny(points, ids) == {pt \in points : pt.document_id \in ids}

\* qdrant scroll(limit=100)[0]: the matching points, at most the limit
ScrollPoints(points, ids) ==
    LET all == SeqById(MatchingAny(points, ids))
    IN  SubSeq(all, 1, Min(ScrollLimit, Len(all)))

\* qdrant search(limit=100, score_threshold=0.0): matching points whose
\* similarity to the query vector is not negative, at most the limit. The
\* vectors are not modelled: any subset of the matching points can come back.
SearchOutcomes(points, ids) ==
    {SeqById(hit) : hit \in {h \in SUBSET MatchingAny(points, ids) :
                                Cardinality(h) <= SearchLimit}}

\* cohere rerank(documents=contexts, top_n=30): the best top_n documents as
\* (index into contexts, relevance_score), by decreasing score
RerankOutcomes(n) ==
    LET k == Min(RerankTopN, n)
        orders == {o \in [1..k -> 0..(n - 1)] :
                        \A i, j \in 1..k : i # j => o[i] # o[j]}
        scores == {sc \in [1..k -> Scores] :
                        \A i \in 1..(k - 1) : sc[i] >= sc[i + 1]}
    IN  {[i \in 1..k |-> [index |-> o[i], relevance_score |-> sc[i]]] :
            o \in orders, sc \in scores}

----------------------------------------------------------------------------
(* QueryEngine.query: metadata shortcut *)

MetadataKeywords == {K_type, K_level, K_document_type, K_hierarchy}

HasMetadataKeyword(q) == AnyIn(MetadataKeywords, Lower(q))

\* doc_metadata: the document ids of docs_info in order of first appearance,
\* after the given keys
DocMetadataKeys(docs_info, keys) ==
    LET known == {keys[k] : k \in 1..Len(keys)}
        inserts == {i \in 1..Len(docs_info) :
                        /\ docs_info[i].document_id \notin known
                        /\ \A j \in 1..(i - 1) :
                              docs_info[j].document_id # docs_info[i].document_id}
        positions == SelectSeq([i \in 1..Len(docs_info) |-> i],
                               LAMBDA i : i \in inserts)
    IN  keys \o [k \in 1..Len(positions) |-> docs_info[positions[k]].document_id]

----------------------------------------------------------------------------
(* QueryEngine.query: fair-coverage selection *)

DocIdOf(hits, r) == hits[r.index + 1].document_id

\* doc_citation_counts.get(doc_id, 0)
CountOf(counts, doc_id) == IF doc_id \in DOMAIN counts THEN counts[doc_id] ELSE 0

\* The first pass left out: only the second pass selects
FirstPassSkipped(results, i, sel, hits, ids) == sel

\* First pass: the first result of each document, break when all are covered
RECURSIVE FirstPass(_, _, _, _, _)
FirstPass(results, i, sel, hits, ids) ==
    IF i > Len(results) THEN sel
    ELSE
        LET r == results[i]
            doc_id == DocIdOf(hits, r)
        IN  IF /\ r.relevance_score > RelevanceFloor
               /\ doc_id \in ids
               /\ doc_id \notin DOMAIN sel.doc_citation_counts
            THEN LET now == [relevant_results |-> Append(sel.relevant_results, r),
                             doc_citation_counts |->
                                 sel.doc_citation_counts @@ (doc_id :> 1)]
                 IN  IF Cardinality(DOMAIN now.doc_citation_counts) = Cardinality(ids)
                     THEN now
                     ELSE FirstPass(results, i + 1, now, hits, ids)
            ELSE FirstPass(results, i + 1, sel, hits, ids)

\* The second pass without its `result not in relevant_results` test
RECURSIVE SecondPassNoDuplicateCheck(_, _, _, _, _)
SecondPassNoDuplicateCheck(results, i, sel, hits, ids) ==
    IF i > Len(results) THEN sel
    ELSE
        LET r == results[i]
            doc_id == DocIdOf(hits, r)
        IN  IF /\ r.relevance_score > RelevanceFloor
               /\ doc_id \in ids
               /\ CountOf(sel.doc_citation_counts, doc_id) < MaxPerDocument
               /\ Len(sel.relevant_results) < TotalLimit
            THEN SecondPassNoDuplicateCheck(results, i + 1,
                     [relevant_results |-> Append(sel.relevant_results, r),
                      doc_citation_counts |->
                          [d \in DOMAIN sel.doc_citation_counts \cup {doc_id} |->
                              IF d = doc_id
                              THEN CountOf(sel.doc_citation_counts, doc_id) + 1
                              ELSE sel.doc_citation_counts[d]]],
                     hits, ids)
            ELSE SecondPassNoDuplicateCheck(results, i + 1, sel, hits, ids)

\* Second pass: further results, at most 2 per document and 15 in total
RECURSIVE SecondPass(_, _, _, _, _)
SecondPass(results, i, sel, hits, ids) ==
    IF i > Len(results) THEN sel
    ELSE
        LET r == results[i]
            doc_id == DocIdOf(hits, r)
        IN  IF /\ r.relevance_score > RelevanceFloor
               /\ doc_id \in ids
               /\ CountOf(sel.doc_citation_counts, doc_id) < MaxPerDocument
               /\ Len(sel.relevant_results) < TotalLimit
               /\ \A k \in 1..Len(sel.relevant_results) : sel.relevant_results[k] # r
            THEN SecondPass(results, i + 1,
                     [relevant_results |-> Append(sel.relevant_results, r),
                      doc_citation_counts |->
                          [d \in DOMAIN sel.doc_citation_counts \cup {doc_id} |->
                              IF d = doc_id
                              THEN CountOf(sel.doc_citation_counts, doc_id) + 1
                              ELSE sel.doc_citation_counts[d]]],
                     hits, ids)
            ELSE SecondPass(results, i + 1, sel, hits, ids)

\* relevant_results and doc_citation_counts after both passes
Select(results, hits, ids) ==
    LET empty == [relevant_results |-> <<>>, doc_citation_counts |-> <<>>]
        first == FirstPass(results, 1, empty, hits, ids)
    IN  SecondPass(results, 1, first, hits, ids)

----------------------------------------------------------------------------
(* QueryEngine.query: grounding verification *)

IsSpace(c) == c \in {" ", "\t", "\n"}

\* str.strip()
RECURSIVE LStrip(_)
LStrip(t) == IF t # <<>> /\ IsSpace(Head(t)) THEN LStrip(Tail(t)) ELSE t

RECURSIVE RStrip(_)
RStrip(t) ==
    IF t # <<>> /\ IsSpace(t[Len(t)]) THEN RStrip(SubSeq(t, 1, Len(t) - 1)) ELSE t

Strip(t) == RStrip(LStrip(t))

\* str.split(): the maximal runs of non-whitespace characters
RECURSIVE SplitWords(_, _, _)
SplitWords(t, words, word) ==
    IF t = <<>> THEN (IF word = <<>> THEN words ELSE Append(words, word))
    ELSE IF IsSpace(Head(t))
         THEN SplitWords(Tail(t), IF word = <<>> THEN words ELSE Append(words, word), <<>>)
         ELSE SplitWords(Tail(t), words, Append(word, Head(t)))

\* ' '.join(words)
RECURSIVE JoinWords(_)
JoinWords(words) ==
    IF words = <<>> THEN <<>>
    ELSE IF Len(words) = 1 THEN Head(words)
    ELSE Head(words) \o <<" ">> \o JoinWords(Tail(words))

\* normalize_text: ' '.join(text.split())
NormalizeText(t) == JoinWords(SplitWords(t, <<>>, <<>>))

\* re.finditer(r'\[\[(.*?)\]\]', answer): group(1) of every match, scanning
\* from position i. A match starts at the leftmost "[[" that is followed on
\* the same line by "]]" and ends at the nearest such "]]".
RECURSIVE QuoteGroups(_, _)
QuoteGroups(answer, i) ==
    IF i + 1 > Len(answer) THEN <<>>
    ELSE IF answer[i] = "[" /\ answer[i + 1] = "["
    THEN LET closes == {j \in (i + 2)..(Len(answer) - 1) :
                            /\ answer[j] = "]" /\ answer[j + 1] = "]"
                            /\ \A k \in (i + 2)..(j - 1) : answer[k] # "\n"}
         IN  IF closes = {} THEN QuoteGroups(answer, i + 1)
             ELSE LET j == CHOOSE c \in closes : \A d \in closes : c <= d
                  IN  <<SubSeq(answer, i + 2, j - 1)>> \o QuoteGroups(answer, j + 2)
    ELSE QuoteGroups(answer, i + 1)

\* chunk_map: one entry per selected result, in selection order
ChunkMap(selected, hits) ==
    [i \in 1..Len(selected) |->
        [document_id |-> DocIdOf(hits, selected[i]),
         text |-> Strip(hits[selected[i].index + 1].text)]]

\* FirstSource without the substring test: the first source, whatever it says
FirstSourceUnverified(quote, chunk_map) ==
    IF chunk_map = <<>> THEN 0 ELSE 1

\* The first source of chunk_map whose normalized text contains the quote, 0 if none
FirstSource(quote, chunk_map) ==
    LET found == {i \in 1..Len(chunk_map) :
                    Contains(NormalizeText(chunk_map[i].text), quote)}
    IN  IF found = {} THEN 0 ELSE CHOOSE i \in found : \A j \in found : i <= j

\* VerifyQuotes without the seen_texts test: every verified match is cited
RECURSIVE VerifyQuotesNoSeenCheck(_, _, _, _)
VerifyQuotesNoSeenCheck(groups, chunk_map, used_citations, seen_texts) ==
    IF groups = <<>> THEN used_citations
    ELSE
        LET quote == NormalizeText(Strip(Head(groups)))
            source == FirstSource(quote, chunk_map)
        IN  IF source = 0
            THEN VerifyQuotesNoSeenCheck(Tail(groups), chunk_map, used_citations,
                                         seen_texts)
            ELSE VerifyQuotesNoSeenCheck(Tail(groups), chunk_map,
                     Append(used_citations,
                            [document_id |-> chunk_map[source].document_id,
                             text_snippet |-> quote]),
                     seen_texts \cup {quote})

\* The loop over the matches: used_citations and seen_texts
RECURSIVE VerifyQuotes(_, _, _, _)
VerifyQuotes(groups, chunk_map, used_citations, seen_texts) ==
    IF groups = <<>> THEN used_citations
    ELSE
        LET quote == NormalizeText(Strip(Head(groups)))
            source == FirstSource(quote, chunk_map)
        IN  IF quote \in seen_texts \/ source = 0
            THEN VerifyQuotes(Tail(groups), chunk_map, used_citations, seen_texts)
            ELSE VerifyQuotes(Tail(groups), chunk_map,
                     Append(used_citations,
                            [document_id |-> chunk_map[source].document_id,
                             text_snippet |-> quote]),
                     seen_texts \cup {quote})

UsedCitations(answer, selected, hits) ==
    VerifyQuotes(QuoteGroups(answer, 1), ChunkMap(selected, hits), <<>>, {})

----------------------------------------------------------------------------
(* QueryEngine.query: results and the handler, one action per provider call *)

Answer(message, details) == [message |-> message, details |-> details]

NoResult ==
    [answer |-> Answer("", <<>>), citations |-> <<>>, confidence |-> "unset"]

NoDocumentsResult ==
    [answer |-> Answer("No documents selected for search.", <<>>),
     citations |-> <<>>, confidence |-> "0.0"]

\* details: the documents listed, one block (name, type, level, parent) each
MetadataResult(docs_info) ==
    [answer |-> Answer("Here are the document details:",
                       DocMetadataKeys(docs_info, <<>>)),
     citations |-> <<>>, confidence |-> "1.0"]

NoSearchResult ==
    [answer |-> Answer("No relevant information found in the selected documents.", <<>>),
     citations |-> <<>>, confidence |-> "0.0"]

NoRelevantResult ==
    [answer |-> Answer("I couldn't find any highly relevant citations in the selected documents to support an answer.", <<>>),
     citations |-> <<>>, confidence |-> "0.0"]

\* The synthesis result with the confidence fixed at 1.0
SynthesisResultFlatConfidence(answer, used_citations) ==
    [answer |-> Answer("(language model answer)", answer),
     citations |-> used_citations,
     confidence |-> "1.0"]

\* details: the text returned by the language model
SynthesisResult(answer, used_citations) ==
    [answer |-> Answer("(language model answer)", answer),
     citations |-> used_citations,
     confidence |-> IF used_citations # <<>> THEN "1.0" ELSE "0.5"]

\* The except clause: the label of the HTTPException for an exception raised
\* by a provider call. The message of an exception may or may not contain
\* "cohere"; the openai client raises OpenAIError.
ErrorLabel(provider, mentions_cohere) ==
    IF mentions_cohere THEN "Cohere API error"
    ELSE IF provider = "llm" THEN "OpenAI API error"
    ELSE "Query engine error"

\* searched_at before the vector search has run
NotSearched == [pc |-> "never", document_id |-> "none", delete |-> "none"]

QueryIdle ==
    /\ query = <<>>
    /\ document_ids = {}
    /\ q_pc = "idle"
    /\ calls = <<>>
    /\ search_result = <<>>
    /\ reranked = <<>>
    /\ relevant_results = <<>>
    /\ result = NoResult
    /\ raised = "none"
    /\ failed = "none"
    /\ searched_at = NotSearched

QueryInit ==
    /\ query \in Queries
    /\ document_ids \in SUBSET Docs
    /\ q_pc = "start"
    /\ calls = <<>>
    /\ search_result = <<>>
    /\ reranked = <<>>
    /\ relevant_results = <<>>
    /\ result = NoResult
    /\ raised = "none"
    /\ failed = "none"
    /\ searched_at = NotSearched

Return(r) ==
    /\ result' = r
    /\ q_pc' = "done"
    /\ raised' = raised
    /\ failed' = failed

\* The except clause swallowing the exception: the call ends with no result
RaiseSwallowed(provider) ==
    /\ raised' = raised
    /\ failed' = provider
    /\ q_pc' = "done"
    /\ result' = result

\* The except clause: the HTTPException raised for a failed provider call
Raise(provider) ==
    \E mentions_cohere \in BOOLEAN :
        /\ raised' = ErrorLabel(provider, mentions_cohere)
        /\ failed' = provider
        /\ q_pc' = "done"
        /\ result' = result

\* query() without the empty-selection guard: the search runs anyway
QueryNoDocumentsUnguarded ==
    /\ q_pc = "start"
    /\ document_ids = {}
    /\ q_pc' = "embed"
    /\ UNCHANGED <<query, document_ids, searched_at, calls, search_result, reranked,
                   relevant_results, result, raised, failed, store, splitVars, detectVars, chunkVars, indexVars, bootVars>>

\* query(): the empty-selection guard
QueryNoDocuments ==
    /\ q_pc = "start"
    /\ document_ids = {}
    /\ Return(NoDocumentsResult)
    /\ UNCHANGED <<query, document_ids, searched_at, calls, search_result, reranked,
                   relevant_results, store, splitVars, detectVars, chunkVars, indexVars, bootVars>>

\* query(): no metadata keyword, on to the semantic search
QueryNoKeyword ==
    /\ q_pc = "start"
    /\ document_ids # {}
    /\ ~HasMetadataKeyword(query)
    /\ q_pc' = "embed"
    /\ UNCHANGED <<query, document_ids, searched_at, calls, search_result, reranked,
                   relevant_results, result, raised, failed, store, splitVars, detectVars, chunkVars, indexVars, bootVars>>

\* The metadata shortcut without its return: the lookup is made and dropped
QueryMetadataNoReturn ==
    /\ q_pc = "start"
    /\ document_ids # {}
    /\ HasMetadataKeyword(query)
    /\ calls' = Append(calls, "scroll")
    /\ \/ Raise("scroll")
       \/ /\ q_pc' = "embed"
          /\ UNCHANGED <<result, raised, failed>>
    /\ UNCHANGED <<query, document_ids, searched_at, search_result, reranked,
                   relevant_results, store, splitVars, detectVars, chunkVars, indexVars, bootVars>>

\* query(): the metadata shortcut, with its scroll call
QueryMetadata ==
    /\ q_pc = "start"
    /\ document_ids # {}
    /\ HasMetadataKeyword(query)
    /\ calls' = Append(calls, "scroll")
    /\ \/ Raise("scroll")
       \/ LET docs_info == ScrollPoints(store, document_ids)
          IN  IF docs_info # <<>>
              THEN Return(MetadataResult(docs_info))
              ELSE /\ q_pc' = "embed"
                   /\ UNCHANGED <<result, raised, failed>>
    /\ UNCHANGED <<query, document_ids, searched_at, search_result, reranked,
                   relevant_results, store, splitVars, detectVars, chunkVars, indexVars, bootVars>>

\* query(): voyage embed of the query text
QueryEmbed ==
    /\ q_pc = "embed"
    /\ calls' = Append(calls, "embed")
    /\ \/ Raise("embed")
       \/ /\ q_pc' = "search"
          /\ UNCHANGED <<result, raised, failed>>
    /\ UNCHANGED <<query, document_ids, searched_at, search_result, reranked,
                   relevant_results, store, splitVars, detectVars, chunkVars, indexVars, bootVars>>

\* QuerySearch without the empty-result return: on to the rerank in any case
QuerySearchNoEmptyReturn ==
    /\ q_pc = "search"
    /\ calls' = Append(calls, "search")
    /\ searched_at' = [pc |-> indexing.pc, document_id |-> indexing.document_id,
                       delete |-> indexing.delete]
    /\ \/ /\ Raise("search")
          /\ UNCHANGED search_result
       \/ \E hits \in SearchOutcomes(store, document_ids) :
            /\ search_result' = hits
            /\ q_pc' = "rerank"
            /\ UNCHANGED <<result, raised, failed>>
    /\ UNCHANGED <<query, document_ids, reranked, relevant_results, store,
                   splitVars, detectVars, chunkVars, indexVars, bootVars>>

\* query(): qdrant search and the empty-result return
QuerySearch ==
    /\ q_pc = "search"
    /\ calls' = Append(calls, "search")
    /\ searched_at' = [pc |-> indexing.pc, document_id |-> indexing.document_id,
                       delete |-> indexing.delete]
    /\ \/ /\ Raise("search")
          /\ UNCHANGED search_result
       \/ \E hits \in SearchOutcomes(store, document_ids) :
            /\ search_result' = hits
            /\ IF hits = <<>>
               THEN Return(NoSearchResult)
               ELSE /\ q_pc' = "rerank"
                    /\ UNCHANGED <<result, raised, failed>>
    /\ UNCHANGED <<query, document_ids, reranked, relevant_results, store,
                   splitVars, detectVars, chunkVars, indexVars, bootVars>>

\* query(): cohere rerank, the two selection passes, the empty-selection return
QueryRerank ==
    /\ q_pc = "rerank"
    /\ calls' = Append(calls, "rerank")
    /\ \/ /\ Raise("rerank")
          /\ UNCHANGED <<reranked, relevant_results>>
       \/ \E results \in RerankOutcomes(Len(search_result)) :
            LET top_results == Select(results, search_result, document_ids).relevant_results
            IN  /\ reranked' = results
                /\ relevant_results' = top_results
                /\ IF top_results = <<>>
                   THEN Return(NoRelevantResult)
                   ELSE /\ q_pc' = "llm"
                        /\ UNCHANGED <<result, raised, failed>>
    /\ UNCHANGED <<query, document_ids, searched_at, search_result, store, splitVars, detectVars, chunkVars, indexVars, bootVars>>

\* query(): the chat completion and the grounding of its quotes
QueryComplete ==
    /\ q_pc = "llm"
    /\ calls' = Append(calls, "llm")
    /\ \/ Raise("llm")
       \/ \E answer \in Answers :
            Return(SynthesisResult(answer,
                       UsedCitations(answer, relevant_results, search_result)))
    /\ UNCHANGED <<query, document_ids, searched_at, search_result, reranked,
                   relevant_results, store, splitVars, detectVars, chunkVars, indexVars, bootVars>>

QueryStep ==
    \/ QueryNoDocuments
    \/ QueryNoKeyword
    \/ QueryMetadata
    \/ QueryEmbed
    \/ QuerySearch
    \/ QueryRerank
    \/ QueryComplete

----------------------------------------------------------------------------
(* The selection step on its own: inputs *)

HitOf(i, doc_id) ==
    [id |-> i, document_id |-> doc_id, contract_set_id |-> "s1", text |-> X_ab,
     version |-> "1"]

\* Search results over the allowed documents, listed by document
HitLists(ids) ==
    {[i \in 1..Len(f) |-> HitOf(i, DocNames[f[i]])] :
        f \in UNION {{g \in [1..k -> 1..Cardinality(Docs)] :
                        /\ \A i \in 1..k : DocNames[g[i]] \in ids
                        /\ \A i \in 1..(k - 1) : g[i] <= g[i + 1]} : k \in 1..MaxHits}}

\* Many documents: n documents with per results each, grouped by document or
\* interleaved, ranked in search order, all scored high or the last one at the floor
WideHits(n, per, layout) ==
    [j \in 1..(n * per) |->
        HitOf(j, DocNames[IF layout = "grouped"
                          THEN ((j - 1) \div per) + 1
                          ELSE ((j - 1) % n) + 1])]

WideReranked(n, per, tail) ==
    [j \in 1..(n * per) |->
        [index |-> j - 1,
         relevance_score |-> IF tail = "floor" /\ j = n * per
                             THEN RelevanceFloor ELSE 900]]

SelectIdle ==
    /\ query = <<>>
    /\ calls = <<>>
    /\ result = NoResult
    /\ raised = "none"
    /\ failed = "none"
    /\ searched_at = NotSearched
    /\ store = {}

SelectInitGeneral ==
    /\ document_ids \in (SUBSET Docs) \ {{}}
    /\ search_result \in HitLists(document_ids)
    /\ reranked \in RerankOutcomes(Len(search_result))

SelectInitWide ==
    \E n \in 1..MaxWideDocs, per \in 1..MaxPerDocument,
       layout \in {"grouped", "interleaved"}, tail \in {"high", "floor"} :
        /\ n * per <= RerankTopN
        /\ document_ids = {DocNames[i] : i \in 1..n}
        /\ search_result = WideHits(n, per, layout)
        /\ reranked = WideReranked(n, per, tail)

SelectInit ==
    /\ SelectIdle
    /\ SelectInitGeneral \/ SelectInitWide
    /\ relevant_results = <<>>
    /\ q_pc = "select"

\* query(): the two selection passes over reranked.results
SelectionStep ==
    /\ q_pc = "select"
    /\ relevant_results' = Select(reranked, search_result, document_ids).relevant_results
    /\ q_pc' = "selected"
    /\ UNCHANGED <<query, document_ids, searched_at, calls, search_result, reranked, result,
                   raised, failed, store, splitVars, detectVars, chunkVars, indexVars, bootVars>>

----------------------------------------------------------------------------
(* DocumentIndexer.index_document, index_nodes, delete_document and the       *)
(* preload script's process_contract_sets, one action per external call       *)

\* The (document_id, contract_set_id) pairs that get indexed
IndexPairs == {<<"d1", "s1">>, <<"d1", "s2">>, <<"d2", "s1">>}

\* Chunk lists a processing run can produce (possibly none)
ChunkLists == SeqsUpTo({X_ab}, MaxChunks)

NotIndexing ==
    [pc |-> "idle", path |-> "none", document_id |-> "none",
     contract_set_id |-> "none", delete |-> "none", chunks |-> <<>>,
     before |-> {}]

IndexIdle ==
    /\ indexing = NotIndexing
    /\ next_uuid = 1
    /\ runs = <<>>

\* Filter(must=[document_id == d]): the contract set left out of the filter
MatchingDocument(points, d, c) ==
    {pt \in points : pt.document_id = d}

\* Filter(must=[document_id == d, contract_set_id == c])
MatchingPair(points, d, c) ==
    {pt \in points : pt.document_id = d /\ pt.contract_set_id = c}

\* index_nodes: one PointStruct per chunk, id=str(uuid.uuid4()), payload
\* "version": "1". The uuids are the positive numbers, in order of generation.
NewPoints(chunk_list, d, c, first_uuid) ==
    {[id |-> first_uuid + i - 1, document_id |-> d, contract_set_id |-> c,
      text |-> chunk_list[i], version |-> "1"] : i \in 1..Len(chunk_list)}

\* store_chunks: one PointStruct per chunk, id=idx from enumerate, payload
\* without a version entry. The integer id idx is the number -idx, so that it
\* is no uuid.
IndexedPoints(chunk_list, d, c) ==
    {[id |-> 0 - (i - 1), document_id |-> d, contract_set_id |-> c,
      text |-> chunk_list[i], version |-> "none"] : i \in 1..Len(chunk_list)}

\* qdrant upsert: points are keyed by id, a point with an id already present
\* replaces the stored one
Upsert(points, new) ==
    {pt \in points : \A n \in new : n.id # pt.id} \cup new

FinishRun(outcome, upserted) ==
    /\ runs' = Append(runs,
                  [path |-> indexing.path, document_id |-> indexing.document_id,
                   contract_set_id |-> indexing.contract_set_id,
                   delete |-> indexing.delete, stage |-> indexing.pc,
                   outcome |-> outcome, upserted |-> upserted,
                   before |-> indexing.before, n |-> Len(indexing.chunks),
                   at |-> store])
    /\ indexing' = NotIndexing

\* index_document is called for a file
IndexDocumentCall ==
    /\ indexing.pc = "idle"
    /\ Len(runs) < MaxRuns
    /\ \E pair \in IndexPairs :
          indexing' = [pc |-> "delete", path |-> "index_document",
                       document_id |-> pair[1], contract_set_id |-> pair[2],
                       delete |-> "none", chunks |-> <<>>, before |-> store]
    /\ UNCHANGED <<store, next_uuid, runs, splitVars, detectVars, chunkVars, queryVars, bootVars>>

\* delete_document reporting success and removing nothing
IndexDocumentDeleteNothing ==
    /\ indexing.pc = "delete"
    /\ store' = store
    /\ indexing' = [indexing EXCEPT !.pc = "process", !.delete = "done"]
    /\ UNCHANGED <<next_uuid, runs, splitVars, detectVars, chunkVars, queryVars, bootVars>>

\* index_document with the exception of delete_document left to propagate
IndexDocumentDeleteRaises ==
    /\ indexing.pc = "delete"
    /\ \/ /\ store' = store \ MatchingPair(store, indexing.document_id,
                                           indexing.contract_set_id)
          /\ indexing' = [indexing EXCEPT !.pc = "process", !.delete = "done"]
          /\ runs' = runs
       \/ /\ store' = store
          /\ FinishRun("raised", {})
    /\ UNCHANGED <<next_uuid, splitVars, detectVars, chunkVars, queryVars, bootVars>>

\* index_document: delete_document, whose exception is logged and swallowed
IndexDocumentDelete ==
    /\ indexing.pc = "delete"
    /\ \/ /\ store' = store \ MatchingPair(store, indexing.document_id,
                                           indexing.contract_set_id)
          /\ indexing' = [indexing EXCEPT !.pc = "process", !.delete = "done"]
       \/ /\ store' = store
          /\ indexing' = [indexing EXCEPT !.pc = "process", !.delete = "failed"]
    /\ UNCHANGED <<next_uuid, runs, splitVars, detectVars, chunkVars, queryVars, bootVars>>

\* index_document: fitz.open, type detection, processor.process_document;
\* any exception is logged and raised again
IndexDocumentProcess ==
    /\ indexing.pc = "process"
    /\ \/ FinishRun("raised", {})
       \/ \E chunk_list \in ChunkLists :
            IF chunk_list = <<>>
            THEN FinishRun("returned", {})
            ELSE /\ indexing' = [indexing EXCEPT !.pc = "index_nodes",
                                                 !.chunks = chunk_list]
                 /\ runs' = runs
    /\ UNCHANGED <<store, next_uuid, splitVars, detectVars, chunkVars, queryVars, bootVars>>

\* index_nodes: embed the texts, build the points, upsert them
IndexNodes ==
    /\ indexing.pc = "index_nodes"
    /\ \/ /\ FinishRun("raised", {})
          /\ UNCHANGED <<store, next_uuid>>
       \/ LET new == NewPoints(indexing.chunks, indexing.document_id,
                               indexing.contract_set_id, next_uuid)
          IN  /\ store' = Upsert(store, new)
              /\ next_uuid' = next_uuid + Len(indexing.chunks)
              /\ FinishRun("returned", {n.id : n \in new})
    /\ UNCHANGED <<splitVars, detectVars, chunkVars, queryVars, bootVars>>

\* process_contract_sets reaches a PDF of a contract-set folder
PreloadCall ==
    /\ indexing.pc = "idle"
    /\ Len(runs) < MaxRuns
    /\ \E pair \in IndexPairs :
          indexing' = [pc |-> "late_chunking", path |-> "preload",
                       document_id |-> pair[1], contract_set_id |-> pair[2],
                       delete |-> "none", chunks |-> <<>>, before |-> store]
    /\ UNCHANGED <<store, next_uuid, runs, splitVars, detectVars, chunkVars, queryVars, bootVars>>

\* process_contract_sets: process_document_late_chunking; an exception skips
\* the PDF
PreloadProcess ==
    /\ indexing.pc = "late_chunking"
    /\ \/ FinishRun("raised", {})
       \/ \E chunk_list \in ChunkLists :
            /\ indexing' = [indexing EXCEPT !.pc = "index_nodes",
                                            !.chunks = chunk_list]
            /\ runs' = runs
    /\ UNCHANGED <<store, next_uuid, splitVars, detectVars, chunkVars, queryVars, bootVars>>

\* VectorStorage.store_chunks is called with the chunks of a document
StoreChunksCall ==
    /\ indexing.pc = "idle"
    /\ Len(runs) < MaxRuns
    /\ \E pair \in IndexPairs, chunk_list \in ChunkLists :
          indexing' = [pc |-> "store_chunks", path |-> "store_chunks",
                       document_id |-> pair[1], contract_set_id |-> pair[2],
                       delete |-> "none", chunks |-> chunk_list, before |-> store]
    /\ UNCHANGED <<store, next_uuid, runs, splitVars, detectVars, chunkVars, queryVars, bootVars>>

\* store_chunks: embed the texts, build the points, upsert them; any
\* exception is logged and raised again
StoreChunks ==
    /\ indexing.pc = "store_chunks"
    /\ \/ /\ FinishRun("raised", {})
          /\ store' = store
       \/ LET new == IndexedPoints(indexing.chunks, indexing.document_id,
                                   indexing.contract_set_id)
          IN  /\ store' = Upsert(store, new)
              /\ FinishRun("returned", {n.id : n \in new})
    /\ UNCHANGED <<next_uuid, splitVars, detectVars, chunkVars, queryVars, bootVars>>

IndexStep ==
    \/ IndexDocumentCall
    \/ IndexDocumentDelete
    \/ IndexDocumentProcess
    \/ IndexNodes
    \/ PreloadCall
    \/ PreloadProcess
    \/ StoreChunksCall
    \/ StoreChunks

----------------------------------------------------------------------------
(* DocumentProcessor.process_document_late_chunking: sections and details   *)

\* === Page 
P_page == <<"=","=","="," ","P","a","g","e"," ">>
\*  ===
P_page_end == <<" ","=","=","=">>
\* === Page 1 ===
L_page1 == <<"=","=","="," ","P","a","g","e"," ","1"," ","=","=","=">>
\* === Page 2 ===
L_page2 == <<"=","=","="," ","P","a","g","e"," ","2"," ","=","=","=">>
\* === Page two ===
L_page_bad == <<"=","=","="," ","P","a","g","e"," ","t","w","o"," ","=","=","=">>
\* Section 
P_section == <<"S","e","c","t","i","o","n"," ">>

\* Lines of an extracted text: page markers, a malformed marker, a line of
\* words, a blank line
TextLines == {L_page1, L_page2, L_page_bad, X_ab, X_sp}

\* '\n'.join(lines)
RECURSIVE JoinLines(_)
JoinLines(lines) ==
    IF lines = <<>> THEN <<>>
    ELSE IF Len(lines) = 1 THEN Head(lines)
    ELSE Head(lines) \o <<"\n">> \o JoinLines(Tail(lines))

Texts == {JoinLines(lines) : lines \in SeqsUpTo(TextLines, MaxLines)}

\* text.split('\n'): line is the piece being read
RECURSIVE SplitNewline(_, _, _)
SplitNewline(t, lines, line) ==
    IF t = <<>> THEN Append(lines, line)
    ELSE IF Head(t) = "\n" THEN SplitNewline(Tail(t), Append(lines, line), <<>>)
    ELSE SplitNewline(Tail(t), lines, Append(line, Head(t)))

\* str.startswith
StartsWith(t, prefix) ==
    Len(t) >= Len(prefix) /\ SubSeq(t, 1, Len(prefix)) = prefix

\* str.replace(old, ''), old not empty
RECURSIVE Remove(_, _)
Remove(t, old) ==
    IF Len(t) < Len(old) THEN t
    ELSE IF StartsWith(t, old) THEN Remove(SubSeq(t, Len(old) + 1, Len(t)), old)
    ELSE <<Head(t)>> \o Remove(Tail(t), old)

DigitChars == <<"0", "1", "2", "3", "4", "5", "6", "7", "8", "9">>

DigitValue(c) == (CHOOSE i \in 1..Len(DigitChars) : DigitChars[i] = c) - 1

IsDigit(c) == \E i \in 1..Len(DigitChars) : DigitChars[i] = c

RECURSIVE DigitsValue(_)
DigitsValue(t) ==
    IF t = <<>> THEN 0
    ELSE DigitsValue(SubSeq(t, 1, Len(t) - 1)) * Len(DigitChars) + DigitValue(t[Len(t)])

\* int(t) for unsigned decimal text: the value, or -1 where int raises ValueError
ParseInt(t) ==
    LET digits == Strip(t)
    IN  IF digits # <<>> /\ \A i \in 1..Len(digits) : IsDigit(digits[i])
        THEN DigitsValue(digits)
        ELSE -1

\* str(n) for n >= 0
RECURSIVE Str(_)
Str(n) ==
    IF n < Len(DigitChars) THEN <<DigitChars[n + 1]>>
    ELSE Str(n \div Len(DigitChars)) \o <<DigitChars[(n % Len(DigitChars)) + 1]>>

\* The loop over text.split('\n'): st holds sections, current_section and
\* whether int() raised
RECURSIVE SectionLoop(_, _, _)
SectionLoop(lines, i, st) ==
    IF st.error \/ i > Len(lines) THEN st
    ELSE
        LET line == lines[i]
        IN  IF StartsWith(line, P_page)
            THEN LET closed ==
                         IF Strip(st.current_section.text) # <<>>
                         THEN Append(st.sections, st.current_section)
                         ELSE st.sections
                     page_num == ParseInt(Remove(Remove(line, P_page), P_page_end))
                 IN  IF page_num = -1
                     THEN [st EXCEPT !.sections = closed, !.error = TRUE]
                     ELSE SectionLoop(lines, i + 1,
                              [st EXCEPT !.sections = closed,
                                         !.current_section =
                                             [text |-> <<>>, start_page |-> page_num]])
            ELSE SectionLoop(lines, i + 1,
                     [st EXCEPT !.current_section.text = @ \o line \o <<"\n">>])

\* sections after the loop and the "add the last section" step
Sections(t) ==
    LET st == SectionLoop(SplitNewline(t, <<>>, <<>>), 1,
                  [sections |-> <<>>,
                   current_section |-> [text |-> <<>>, start_page |-> 1],
                   error |-> FALSE])
    IN  IF st.error THEN st
        ELSE IF Strip(st.current_section.text) # <<>>
        THEN [st EXCEPT !.sections = Append(@, st.current_section)]
        ELSE st

\* The section-level TextChunks; the uuid4 values are numbered in the order
\* they are drawn
SectionChunks(sections) ==
    [i \in 1..Len(sections) |->
        [text |-> sections[i].text,
         page_number |-> sections[i].start_page,
         chunk_id |-> 2 * i - 1,
         section_id |-> 2 * i,
         section_reference |-> P_section \o Str(i)]]

\* The tokenizer, at the level of its base vocabulary: one token per character
Vocabulary == <<" ", "\n", "a", "b">>

Encode(t) == [i \in 1..Len(t) |-> CHOOSE k \in 1..Len(Vocabulary) : Vocabulary[k] = t[i]]

Decode(toks) == [i \in 1..Len(toks) |-> Vocabulary[toks[i]]]

\* self.text_splitter(text)
TextSplitter(t, size, overlap) ==
    LET windows == SplitText(Encode(t), size, overlap)
    IN  [k \in 1..Len(windows) |-> Decode(windows[k])]

\* The detail chunks of one section, each under a section_id of its own
SubChunksOwnSection(section_chunk, size, overlap, first_uuid) ==
    LET sub_texts == TextSplitter(section_chunk.text, size, overlap)
    IN  [k \in 1..Len(sub_texts) |->
            [text |-> sub_texts[k],
             page_number |-> section_chunk.page_number,
             chunk_id |-> first_uuid + 2 * (k - 1),
             section_id |-> first_uuid + 2 * (k - 1) + 1,
             section_reference |-> section_chunk.section_reference]]

\* The detail chunks of one section
SubChunks(section_chunk, size, overlap, first_uuid) ==
    LET sub_texts == TextSplitter(section_chunk.text, size, overlap)
    IN  [k \in 1..Len(sub_texts) |->
            [text |-> sub_texts[k],
             page_number |-> section_chunk.page_number,
             chunk_id |-> first_uuid + k - 1,
             section_id |-> section_chunk.section_id,
             section_reference |-> section_chunk.section_reference]]

\* detail_chunks.extend(sub_chunks) over the section chunks from the i-th on
RECURSIVE DetailChunks(_, _, _, _, _)
DetailChunks(section_list, i, details, size, overlap) ==
    IF i > Len(section_list) THEN details
    ELSE LET first_uuid == 2 * Len(section_list) + Len(details) + 1
             sub_chunks == SubChunks(section_list[i], size, overlap, first_uuid)
         IN  DetailChunks(section_list, i + 1, details \o sub_chunks, size, overlap)

ChunkIdle ==
    /\ doc_text = <<>>
    /\ section_chunks = <<>>
    /\ detail_chunks = <<>>
    /\ chunk_pc = "idle"

ChunkInit ==
    /\ doc_text \in Texts
    /\ chunk_size \in 1..MaxChunkSize
    /\ chunk_overlap \in 0..(chunk_size - 1)
    /\ tokens = <<>>
    /\ chunks = <<>>
    /\ split_pc = "idle"
    /\ section_chunks = <<>>
    /\ detail_chunks = <<>>
    /\ chunk_pc = "start"

\* process_document_late_chunking from the section split to its return; a
\* malformed page marker makes int() raise and the call ends without chunks
ProcessDocumentLateChunking ==
    /\ chunk_pc = "start"
    /\ LET st == Sections(doc_text)
           section_list == SectionChunks(st.sections)
       IN  IF st.error
           THEN /\ chunk_pc' = "raised"
                /\ UNCHANGED <<section_chunks, detail_chunks>>
           ELSE /\ section_chunks' = section_list
                /\ detail_chunks' = DetailChunks(section_list, 1, <<>>,
                                                 chunk_size, chunk_overlap)
                /\ chunk_pc' = "returned"
    /\ UNCHANGED <<doc_text, splitVars, detectVars, store, queryVars, indexVars, bootVars>>

----------------------------------------------------------------------------
(* Collection bootstrap: VectorStorage._ensure_collection and               *)
(* DocumentIndexer.__init__, one action per qdrant call                      *)

VectorSize == 1024

PayloadIndexes == {"document_id", "contract_set_id"}

NoCollection == [exists |-> FALSE, size |-> 0, indexes |-> {}]

\* The collection as _ensure_collection sets it up on an empty store
FullCollection == [exists |-> TRUE, size |-> VectorSize, indexes |-> PayloadIndexes]

NotBooting == [who |-> "none", pc |-> "idle", before |-> NoCollection]

BootIdle ==
    /\ collection = FullCollection
    /\ boot = NotBooting
    /\ boots = <<>>

\* A store with or without the collection, no bootstrap run yet
BootInit ==
    /\ collection \in {NoCollection, FullCollection}
    /\ boot = NotBooting
    /\ boots = <<>>

FinishBoot(outcome) ==
    /\ boots' = Append(boots, [who |-> boot.who, outcome |-> outcome,
                               stage |-> boot.pc, before |-> boot.before])
    /\ boot' = NotBooting

\* VectorStorage() is constructed: _ensure_collection starts
EnsureCollectionCall ==
    /\ boot.pc = "idle"
    /\ Len(boots) < MaxBoots
    /\ boot' = [who |-> "VectorStorage", pc |-> "get_collections",
                before |-> collection]
    /\ UNCHANGED <<collection, boots, splitVars, detectVars, chunkVars, store,
                   queryVars, indexVars>>

\* _ensure_collection: get_collections and the exists test
EnsureCollectionGet ==
    /\ boot.who = "VectorStorage"
    /\ boot.pc = "get_collections"
    /\ \/ FinishBoot("raised")
       \/ IF collection.exists
          THEN FinishBoot("returned")
          ELSE /\ boot' = [boot EXCEPT !.pc = "create_collection"]
               /\ boots' = boots
    /\ UNCHANGED <<collection, splitVars, detectVars, chunkVars, store,
                   queryVars, indexVars>>

\* _ensure_collection: create_collection(size=1024, COSINE)
EnsureCollectionCreate ==
    /\ boot.who = "VectorStorage"
    /\ boot.pc = "create_collection"
    /\ \/ /\ FinishBoot("raised")
          /\ collection' = collection
       \/ /\ collection' = [exists |-> TRUE, size |-> VectorSize, indexes |-> {}]
          /\ boot' = [boot EXCEPT !.pc = "index_document_id"]
          /\ boots' = boots
    /\ UNCHANGED <<splitVars, detectVars, chunkVars, store, queryVars, indexVars>>

\* _ensure_collection: create_payload_index on document_id, then on
\* contract_set_id
EnsureCollectionIndex ==
    /\ boot.who = "VectorStorage"
    /\ boot.pc \in {"index_document_id", "index_contract_set_id"}
    /\ \/ /\ FinishBoot("raised")
          /\ collection' = collection
       \/ IF boot.pc = "index_document_id"
          THEN /\ collection' = [collection EXCEPT
                                    !.indexes = @ \cup {"document_id"}]
               /\ boot' = [boot EXCEPT !.pc = "index_contract_set_id"]
               /\ boots' = boots
          ELSE /\ collection' = [collection EXCEPT
                                    !.indexes = @ \cup {"contract_set_id"}]
               /\ FinishBoot("returned")
    /\ UNCHANGED <<splitVars, detectVars, chunkVars, store, queryVars, indexVars>>

\* DocumentIndexer() is constructed
IndexerInitCall ==
    /\ boot.pc = "idle"
    /\ Len(boots) < MaxBoots
    /\ boot' = [who |-> "DocumentIndexer", pc |-> "get_collection",
                before |-> collection]
    /\ UNCHANGED <<collection, boots, splitVars, detectVars, chunkVars, store,
                   queryVars, indexVars>>

\* DocumentIndexer.__init__: get_collection("documents"); any exception, the
\* not-found one or another, leads to the create
IndexerInitGet ==
    /\ boot.who = "DocumentIndexer"
    /\ boot.pc = "get_collection"
    /\ \/ /\ collection.exists
          /\ FinishBoot("returned")
       \/ /\ boot' = [boot EXCEPT !.pc = "create_collection"]
          /\ boots' = boots
    /\ UNCHANGED <<collection, splitVars, detectVars, chunkVars, store,
                   queryVars, indexVars>>

\* DocumentIndexer.__init__: create_collection(size=1024, COSINE), which
\* qdrant refuses for a collection that exists; a failure becomes RuntimeError
IndexerInitCreate ==
    /\ boot.who = "DocumentIndexer"
    /\ boot.pc = "create_collection"
    /\ \/ /\ FinishBoot("raised")
          /\ collection' = collection
       \/ /\ ~collection.exists
          /\ collection' = [exists |-> TRUE, size |-> VectorSize, indexes |-> {}]
          /\ FinishBoot("returned")
    /\ UNCHANGED <<splitVars, detectVars, chunkVars, store, queryVars, indexVars>>

BootStep ==
    \/ EnsureCollectionCall
    \/ EnsureCollectionGet
    \/ EnsureCollectionCreate
    \/ EnsureCollectionIndex
    \/ IndexerInitCall
    \/ IndexerInitGet
    \/ IndexerInitCreate

----------------------------------------------------------------------------
(* Specifications *)

\* The chunker run on every token stream and (chunk_size, chunk_overlap)
InitSplit == IndexIdle /\ SplitInit /\ DetectIdle /\ QueryIdle /\ store = {} /\ ChunkIdle /\ BootIdle

NextSplit == DoSplitText

SpecSplit == InitSplit /\ [][NextSplit]_vars

\* The classifier run on every filename and hint list
InitDetect == IndexIdle /\ DetectInit /\ SplitIdle /\ QueryIdle /\ store = {} /\ ChunkIdle /\ BootIdle

NextDetect == DetectDocumentType \/ IndexDocumentDetect

SpecDetect == InitDetect /\ [][NextDetect]_vars

\* The classifier run on every filename, short hint list and document text
InitDetectText == IndexIdle /\ DetectTextInit /\ SplitIdle /\ QueryIdle /\ store = {} /\ BootIdle

NextDetectText == DetectDocumentType

SpecDetectText == InitDetectText /\ [][NextDetectText]_vars

\* One query against a populated collection, every provider outcome
InitQuery == IndexIdle /\ QueryInit /\ store = QueryStore /\ SplitIdle /\ DetectIdle /\ ChunkIdle /\ BootIdle

NextQuery == QueryStep

SpecQuery == InitQuery /\ [][NextQuery]_vars

\* A collection with n1 points of d1 followed, in id order, by n2 points of d2
MetadataStore(n1, n2) ==
    {[id |-> i, document_id |-> IF i <= n1 THEN "d1" ELSE "d2",
      contract_set_id |-> "s1", text |-> X_ab, version |-> "1"] :
        i \in 1..(n1 + n2)}

\* Collections from empty to one document filling a whole scroll page
MetadataStores ==
    {MetadataStore(n1, n2) : n1 \in {0, 1, 2, ScrollLimit}, n2 \in {0, 1}}

\* One query, followed through its metadata shortcut, against collections of
\* every such size
InitMetadata ==
    /\ IndexIdle /\ QueryInit /\ store \in MetadataStores
    /\ SplitIdle /\ DetectIdle /\ ChunkIdle /\ BootIdle

NextMetadata == QueryNoDocuments \/ QueryNoKeyword \/ QueryMetadata

SpecMetadata == InitMetadata /\ [][NextMetadata]_vars

\* The selection step on every small reranked list and on lists over many documents
InitSelect == IndexIdle /\ SelectInit /\ SplitIdle /\ DetectIdle /\ ChunkIdle /\ BootIdle

NextSelect == SelectionStep

SpecSelect == InitSelect /\ [][NextSelect]_vars

\* The section split run on every small text and (chunk_size, chunk_overlap)
InitChunk == IndexIdle /\ ChunkInit /\ DetectIdle /\ QueryIdle /\ store = {} /\ BootIdle

NextChunk == ProcessDocumentLateChunking

SpecChunk == InitChunk /\ [][NextChunk]_vars

\* index_document has been called again for d1 of set s1, which the collection
\* holds, and a query over d1 starts
ReindexInit ==
    /\ store = QueryStore
    /\ indexing = [pc |-> "delete", path |-> "index_document",
                   document_id |-> "d1", contract_set_id |-> "s1",
                   delete |-> "none", chunks |-> <<>>, before |-> QueryStore]
    /\ next_uuid = Cardinality(QueryStore) + 1
    /\ runs = <<>>
    /\ query = Q_terms
    /\ document_ids = {"d1"}
    /\ q_pc = "start"
    /\ calls = <<>>
    /\ search_result = <<>>
    /\ reranked = <<>>
    /\ relevant_results = <<>>
    /\ result = NoResult
    /\ raised = "none"
    /\ failed = "none"
    /\ searched_at = NotSearched

\* A query running while a document it covers is re-indexed: the steps of the
\* two requests interleave at their awaited calls. The query is followed
\* through its vector search; what it does with the hits is in SpecQuery.
InitReindex == ReindexInit /\ SplitIdle /\ DetectIdle /\ ChunkIdle /\ BootIdle

NextReindex ==
    \/ IndexDocumentDelete
    \/ IndexDocumentProcess
    \/ IndexNodes
    \/ QueryNoKeyword
    \/ QueryEmbed
    \/ QuerySearch

SpecReindex == InitReindex /\ [][NextReindex]_vars

\* Successive constructions of VectorStorage and DocumentIndexer on a store
\* with or without the collection
InitBootstrap ==
    /\ BootInit /\ store = {}
    /\ IndexIdle /\ QueryIdle /\ SplitIdle /\ DetectIdle /\ ChunkIdle

NextBootstrap == BootStep

SpecBootstrap == InitBootstrap /\ [][NextBootstrap]_vars

\* Successive index_document and preload runs on an empty collection
InitIndex == IndexIdle /\ store = {} /\ QueryIdle /\ SplitIdle /\ DetectIdle /\ ChunkIdle /\ BootIdle

NextIndex == IndexStep

SpecIndex == InitIndex /\ [][NextIndex]_vars

----------------------------------------------------------------------------
(* Claims about the chunker *)

\* The last n elements of s (n <= Len(s))
LastN(s, n) == SubSeq(s, Len(s) - n + 1, Len(s))

\* s without its first n elements
DropN(s, n) == SubSeq(s, n + 1, Len(s))

RECURSIVE Reassemble(_, _, _)
Reassemble(cs, k, overlap) ==
    IF k > Len(cs) THEN <<>>
    ELSE (IF k = 1 THEN cs[k] ELSE DropN(cs[k], overlap))
         \o Reassemble(cs, k + 1, overlap)

\* C7: for every token stream and 0 <= chunk_overlap < chunk_size, every chunk
\* _split_text produces, except possibly the last, has exactly chunk_size tokens.
C7_AllButLastHaveChunkSize ==
    split_pc = "done" =>
        \A k \in 1..(Len(chunks) - 1) : Len(chunks[k]) = chunk_size

\* C8: for every token stream and 0 <= chunk_overlap < chunk_size, each chunk
\* after the first begins with the last chunk_overlap tokens of the chunk
\* before it, and the first chunk followed by every later chunk without its
\* first chunk_overlap tokens is the original token stream.
C8_OverlapRepeatsAndReassembles ==
    split_pc = "done" =>
        /\ \A k \in 2..Len(chunks) :
              /\ Len(chunks[k]) >= chunk_overlap
              /\ Len(chunks[k - 1]) >= chunk_overlap
              /\ SubSeq(chunks[k], 1, chunk_overlap) = LastN(chunks[k - 1], chunk_overlap)
        /\ Reassemble(chunks, 1, chunk_overlap) = tokens

----------------------------------------------------------------------------
(* Claims about the section split *)

\* The segments of the text, each named by the number of the marker line
\* that opens it (0 for the text before the first marker)
SegmentStarts ==
    LET lines == SplitNewline(doc_text, <<>>, <<>>)
    IN  {0} \cup {i \in 1..Len(lines) : StartsWith(lines[i], P_page)}

\* The lines of the segment opened at line m
SegmentLines(m) ==
    LET lines == SplitNewline(doc_text, <<>>, <<>>)
    IN  {i \in (m + 1)..Len(lines) : \A j \in (m + 1)..i : j \notin SegmentStarts}

\* The segments with a character that is not whitespace, in text order
NonBlankSegments ==
    LET lines == SplitNewline(doc_text, <<>>, <<>>)
    IN  {m \in SegmentStarts : \E i \in SegmentLines(m) : Strip(lines[i]) # <<>>}

\* C13: in every output of process_document_late_chunking each detail chunk's
\* section_id is the section_id of exactly one section chunk, whose
\* section_reference and page_number the detail chunk carries; the section
\* chunks are labelled "Section 1" .. "Section n" in the order their segments
\* occur in the text, and a whitespace-only segment gives no chunk.
C13_DetailChunksFollowSections ==
    chunk_pc = "returned" =>
        /\ \A k \in 1..Len(detail_chunks) :
              LET owners == {i \in 1..Len(section_chunks) :
                                section_chunks[i].section_id = detail_chunks[k].section_id}
              IN  /\ Cardinality(owners) = 1
                  /\ \A i \in owners :
                        /\ detail_chunks[k].section_reference
                              = section_chunks[i].section_reference
                        /\ detail_chunks[k].page_number = section_chunks[i].page_number
        /\ Len(section_chunks) = Cardinality(NonBlankSegments)
        /\ \A i \in 1..Len(section_chunks) :
              LET m == CHOOSE x \in NonBlankSegments :
                           Cardinality({y \in NonBlankSegments : y < x}) = i - 1
                  lines == SplitNewline(doc_text, <<>>, <<>>)
              IN  /\ section_chunks[i].section_reference = P_section \o Str(i)
                  /\ Strip(section_chunks[i].text) # <<>>
                  /\ section_chunks[i].page_number =
                        IF m = 0 THEN 1
                        ELSE ParseInt(Remove(Remove(lines[m], P_page), P_page_end))

\* Two sections, each split into several detail chunks, and a whitespace-only
\* segment that gave no chunk
C13_Witness ==
    /\ chunk_pc = "returned"
    /\ Len(section_chunks) = 2
    /\ Len(detail_chunks) > Len(section_chunks)
    /\ Cardinality(SegmentStarts) > Cardinality(NonBlankSegments)

----------------------------------------------------------------------------
(* Claims about the classifier *)

\* C9: given the filename "Amendment_1_to_MSA.pdf" and the single first-page
\* hint "Amendment to Master Agreement", the classifier returns (amendment, 2).
C9_AmendmentToMsaIsAmendment ==
    (/\ detect_pc = "done"
     /\ filename = F_amendment_msa
     /\ document_type_hints = <<H_amend_to_master>>)
    => (doc_type = "amendment" /\ level = 2)

\* The hints of the list that added points to type t
HintsAddingTo(hints, t) == {i \in 1..Len(hints) : HintScores(hints[i])[t] > 0}

\* C10: when the filename pass fires for a bucket, the resolved type differs
\* from that bucket's type only if at least two hints each added points to the
\* resolved type; with zero or one hint the resolved type is the bucket's type.
C10_FilenameDominatesSingleHint ==
    (detect_pc = "done" /\ FilenameBucket(filename) # "none") =>
        /\ doc_type # FilenameBucket(filename) =>
              Cardinality(HintsAddingTo(document_type_hints, doc_type)) >= 2
        /\ Len(document_type_hints) <= 1 => doc_type = FilenameBucket(filename)

\* A filename bucket fired and two or more hints for another type overturned it
C10_Witness ==
    /\ detect_pc = "done"
    /\ FilenameBucket(filename) # "none"
    /\ doc_type # FilenameBucket(filename)
    /\ Cardinality(HintsAddingTo(document_type_hints, doc_type)) >= 2

\* The types whose accumulated score is the maximum
TypesAtMaximum(scores) == {t \in Types : \A u \in Types : scores[u] <= scores[t]}

\* C11: the classifier resolves to the type with the strictly maximum
\* accumulated score; when three or more types tie for the maximum, or when
\* every score is zero, it uses the secondary filename check instead, which
\* returns master only if none of its keywords occurs in the filename.
C11_TiesAndZerosUseFilenameCheck ==
    detect_pc = "done" =>
        LET type_scores == TypeScores(filename, document_type_hints)
            top == TypesAtMaximum(type_scores)
            all_zero == \A t \in Types : type_scores[t] = 0
        IN  /\ (all_zero \/ Cardinality(top) >= 3) =>
                  /\ doc_type = SecondaryFilenameType(filename)
                  /\ doc_type = "master" =>
                        ~AnyIn({T_sow, T_amend, T_change}, Lower(filename))
            /\ (~all_zero /\ Cardinality(top) = 1) => doc_type \in top

\* The level the hierarchy gives each type: master 1, amendment 2, sow 3,
\* change_order 4, other and unknown 1
HierarchyLevel(t) ==
    CASE t = "master" -> 1
      [] t = "amendment" -> 2
      [] t = "sow" -> 3
      [] t = "change_order" -> 4
      [] t \in {"other", "unknown"} -> 1

\* C12: every (document_type, level) pair given to a DocumentMetadata by the
\* classifier or by index_document's type detection has level = M[type], for
\* M = {master: 1, amendment: 2, sow: 3, change_order: 4, other/unknown: 1}.
C12_LevelFollowsType ==
    /\ detect_pc = "done" =>
          /\ doc_type \in Types \cup {"other", "unknown"}
          /\ level = HierarchyLevel(doc_type)
    /\ index_detect_pc = "done" =>
          /\ index_doc_type \in Types \cup {"other", "unknown"}
          /\ index_level = HierarchyLevel(index_doc_type)

\* The terms of a filename bucket
BucketTerms(t) ==
    CASE t = "master" -> MasterFileTerms
      [] t = "amendment" -> AmendmentFileTerms
      [] t = "sow" -> SowFileTerms
      [] t = "change_order" -> ChangeFileTerms

\* The buckets, by position in the test order, with a term in the filename
MatchingBuckets(fname) ==
    {i \in 1..Len(TypeOrder) : AnyIn(BucketTerms(TypeOrder[i]), Lower(fname))}

\* C20: the filename pass adds points to at most one type: of the buckets
\* master, amendment, sow, change_order, in that order, only the first whose
\* terms occur in the lowercased filename is scored (19 for master, 20 for
\* the others); a filename matching several buckets scores the earliest only.
C20_FilenameScoresFirstBucketOnly ==
    detect_pc = "done" =>
        LET scores == FilenameScores(filename)
            matching == MatchingBuckets(filename)
        IN  /\ Cardinality({t \in Types : scores[t] # 0}) <= 1
            /\ \A i \in 1..Len(TypeOrder) :
                  scores[TypeOrder[i]] =
                      IF i \in matching /\ \A k \in matching : i <= k
                      THEN (IF TypeOrder[i] = "master"
                            THEN MasterFilenamePoints ELSE OtherFilenamePoints)
                      ELSE 0

\* A classified file whose name has terms of two buckets
C20_Witness ==
    /\ detect_pc = "done"
    /\ Cardinality(MatchingBuckets(filename)) >= 2
    /\ FilenameScores(filename)["master"] = MasterFilenamePoints
    /\ FilenameScores(filename)["amendment"] = 0

\* The hint mentions "master"
MentionsMaster(hint) == Contains(Lower(hint), T_master)

\* The hint has one of the patterns that refer to a master agreement
RefersToMaster(hint) ==
    AnyIn({T_to_master, T_to_the_master, T_pursuant_to_master, T_under_master,
           T_reference_to_master}, Lower(hint))

\* The sum of entry t of the first n score records
RECURSIVE HintTotal(_, _, _)
HintTotal(scores, n, t) ==
    IF n = 0 THEN 0 ELSE HintTotal(scores, n - 1, t) + scores[n][t]

\* C21: in the hint pass a hint with "master" and a reference pattern adds 5
\* to amendment (on top of the 10 of an amendment or addendum keyword it may
\* also have) and nothing to master; a hint with "master" and no reference
\* pattern adds 8 to master; each hint is scored on its own and the scores add
\* up in the accumulator the filename pass wrote to.
C21_MasterReferenceScoresAmendment ==
    detect_pc = "done" =>
        LET scores == [i \in 1..Len(document_type_hints) |->
                          HintScores(document_type_hints[i])]
            from_filename == FilenameScores(filename)
            type_scores == TypeScores(filename, document_type_hints)
        IN  /\ \A i \in 1..Len(document_type_hints) :
                  LET hint_lower == Lower(document_type_hints[i])
                      keyword == IF \/ Contains(hint_lower, T_amendment)
                                    \/ Contains(hint_lower, T_addendum)
                                 THEN AmendmentHintPoints ELSE 0
                      refers == AnyIn({T_to_master, T_to_the_master,
                                       T_pursuant_to_master, T_under_master,
                                       T_reference_to_master}, hint_lower)
                  IN  Contains(hint_lower, T_master) =>
                         IF refers
                         THEN /\ scores[i]["amendment"] = keyword + MasterReferenceBonus
                              /\ scores[i]["master"] = 0
                         ELSE /\ scores[i]["master"] = MasterHintPoints
                              /\ scores[i]["amendment"] = keyword
            /\ \A t \in Types :
                  type_scores[t]
                      = from_filename[t] + HintTotal(scores, Len(scores), t)

\* A file whose name scored a bucket, with a hint that refers to a master
\* agreement and a hint that names one
C21_Witness ==
    /\ detect_pc = "done"
    /\ FilenameBucket(filename) # "none"
    /\ \E i, j \in 1..Len(document_type_hints) :
          /\ MentionsMaster(document_type_hints[i])
          /\ RefersToMaster(document_type_hints[i])
          /\ MentionsMaster(document_type_hints[j])
          /\ ~RefersToMaster(document_type_hints[j])

\* C30: the classifier's result depends only on the filename and the hint
\* list: calls with the same filename and hints and another document text
\* return the same (document_type, level), and the type is always one of
\* master, amendment, sow, change_order (never unknown).
C30_ResultIgnoresText ==
    detect_pc = "done" =>
        /\ \A text \in ClassifierTexts :
              DetectDocumentTypeResult(text, filename, document_type_hints)
                  = [doc_type |-> doc_type, level |-> level]
        /\ doc_type \in {"master", "amendment", "sow", "change_order"}

\* A file classified sow whose text opens with a master agreement's title
C30_Witness ==
    /\ detect_pc = "done"
    /\ doc_type = "sow"
    /\ Contains(Lower(doc_text), T_master)

----------------------------------------------------------------------------
(* Claims about QueryEngine.query *)

ProviderCalls(names) == {i \in 1..Len(calls) : calls[i] \in names}

\* C1: query with an empty document_ids returns, for every query text,
\* {answer: "No documents selected...", citations: [], confidence: 0.0} and
\* calls neither the vector store nor the embedding, rerank or language-model
\* service.
C1_EmptySelectionShortCircuits ==
    document_ids = {} =>
        /\ calls = <<>>
        /\ q_pc \in {"start", "done"}
        /\ q_pc = "done" =>
              /\ raised = "none"
              /\ result.answer.message = "No documents selected for search."
              /\ result.citations = <<>>
              /\ result.confidence = "0.0"

\* A query with no document selected has returned
C1_Witness ==
    /\ q_pc = "done"
    /\ document_ids = {}
    /\ query = Q_type

\* C2 as stated: for every query containing a hierarchy keyword and every
\* non-empty allowed set, the result has empty citations and confidence 1.0,
\* and no embedding, rerank or language-model call occurs, whatever the
\* metadata lookup returns.
C2_KeywordQueryAlwaysFromMetadata ==
    (document_ids # {} /\ HasMetadataKeyword(query)) =>
        /\ ProviderCalls({"embed", "rerank", "llm"}) = {}
        /\ (q_pc = "done" /\ raised = "none") =>
              (result.citations = <<>> /\ result.confidence = "1.0")

\* C2 amended: the same, when the metadata lookup returns at least one point.
C2_KeywordQueryWithStoredPoints ==
    (/\ document_ids # {}
     /\ HasMetadataKeyword(query)
     /\ MatchingAny(store, document_ids) # {}) =>
        /\ ProviderCalls({"embed", "search", "rerank", "llm"}) = {}
        /\ q_pc \in {"start", "done"}
        /\ (q_pc = "done" /\ raised = "none") =>
              /\ result.answer.message = "Here are the document details:"
              /\ result.citations = <<>>
              /\ result.confidence = "1.0"

\* A keyword query answered from the stored points of two documents
C2_Witness ==
    /\ q_pc = "done"
    /\ raised = "none"
    /\ HasMetadataKeyword(query)
    /\ document_ids = {"d1", "d2"}
    /\ calls = <<"scroll">>
    /\ result.answer.details = <<"d1", "d2">>

\* The selected excerpts: document id and normalized text of each selected result
SelectedExcerpts ==
    {[document_id |-> DocIdOf(search_result, relevant_results[k]),
      text |-> NormalizeText(search_result[relevant_results[k].index + 1].text)] :
        k \in 1..Len(relevant_results)}

QuotedSpans ==
    LET groups == QuoteGroups(result.answer.details, 1)
    IN  {NormalizeText(groups[i]) : i \in 1..Len(groups)}

\* C3: every citation's text_snippet, whitespace-normalized, is a substring of
\* the normalized text of a selected excerpt of the citation's document_id; a
\* quoted span that is a substring of no selected excerpt yields no citation.
C3_CitationsAreGrounded ==
    q_pc = "done" =>
        /\ \A i \in 1..Len(result.citations) :
              \E e \in SelectedExcerpts :
                  /\ e.document_id = result.citations[i].document_id
                  /\ Contains(e.text, NormalizeText(result.citations[i].text_snippet))
        /\ \A span \in QuotedSpans :
              (\A e \in SelectedExcerpts : ~Contains(e.text, span)) =>
                  \A i \in 1..Len(result.citations) :
                      result.citations[i].text_snippet # span

\* An answer with a verified quote and a quote found in no selected excerpt
C3_Witness ==
    /\ q_pc = "done"
    /\ result.citations # <<>>
    /\ \E span \in QuotedSpans : \A e \in SelectedExcerpts : ~Contains(e.text, span)

\* The provider call made last, "none" before the first
LastCall == IF calls = <<>> THEN "none" ELSE calls[Len(calls)]

\* The query ended on the synthesis path: the language model answered
SynthesisPath == q_pc = "done" /\ failed = "none" /\ LastCall = "llm"

\* C14: on the synthesis path the confidence is 1.0 if and only if at least
\* one citation was verified and 0.5 otherwise; over all outcomes a result
\* with citations has confidence 1.0 and a result with confidence 0.0 has none.
C14_ConfidenceFollowsCitations ==
    /\ SynthesisPath =>
          /\ result.confidence = "1.0" <=> result.citations # <<>>
          /\ result.confidence = "0.5" <=> result.citations = <<>>
    /\ q_pc = "done" =>
          /\ result.citations # <<>> => result.confidence = "1.0"
          /\ result.confidence = "0.0" => result.citations = <<>>

\* An answer with a verified citation
C14_Witness ==
    /\ SynthesisPath
    /\ result.citations # <<>>
    /\ result.confidence = "1.0"

\* The service behind each call of the query
ServiceOf(call) ==
    CASE call \in {"scroll", "search"} -> "vector store"
      [] call = "embed" -> "embedding service"
      [] call = "rerank" -> "rerank service"
      [] call = "llm" -> "language model"

\* The service an error label names; "Query engine error" names none
NamedService(label) ==
    CASE label = "Cohere API error" -> "rerank service"
      [] label = "OpenAI API error" -> "language model"
      [] OTHER -> "none"

\* C15: when a provider call of the query fails (embedding service, vector
\* store, rerank service, language model) the query ends in the provider-error
\* outcome and the error message names the provider that failed.
C15_ErrorNamesFailedProvider ==
    failed # "none" =>
        /\ q_pc = "done"
        /\ raised # "none"
        /\ NamedService(raised) = ServiceOf(failed)

\* The terminal states the finished query is in
TerminalStates ==
    {t \in {"answered-with-citations", "answered-without-citations",
            "no-documents-selected", "no-relevant-results", "provider-error"} :
        CASE t = "provider-error" -> raised # "none"
          [] t = "no-documents-selected" ->
                /\ raised = "none"
                /\ result.answer.message = "No documents selected for search."
          [] t = "no-relevant-results" ->
                /\ raised = "none"
                /\ result.answer.message \in
                      {"No relevant information found in the selected documents.",
                       "I couldn't find any highly relevant citations in the selected documents to support an answer."}
          [] t = "answered-with-citations" ->
                /\ raised = "none"
                /\ result.answer.message \in
                      {"(language model answer)", "Here are the document details:"}
                /\ result.citations # <<>>
          [] t = "answered-without-citations" ->
                /\ raised = "none"
                /\ result.answer.message \in
                      {"(language model answer)", "Here are the document details:"}
                /\ result.citations = <<>>}

\* The query ended on a soft miss: the search found nothing, or the selection
\* kept nothing
SoftMiss ==
    /\ q_pc = "done"
    /\ failed = "none"
    /\ \/ LastCall = "search" /\ search_result = <<>>
       \/ LastCall = "rerank" /\ relevant_results = <<>>

\* The awaited calls and returns still ahead of the query, at most
StepsLeft(pc) ==
    CASE pc = "start" -> 5
      [] pc = "embed" -> 4
      [] pc = "search" -> 3
      [] pc = "rerank" -> 2
      [] pc = "llm" -> 1
      [] pc = "done" -> 0

\* C17: every execution of query, each external call returning or raising,
\* ends (a query that has not ended has a step to take, and every step leaves
\* fewer steps ahead), and ends in exactly one of the terminal states
\* answered-with-citations, answered-without-citations, no-documents-selected,
\* no-relevant-results, provider-error; a soft miss ends in
\* no-relevant-results with confidence 0.0 and no citations, never in
\* provider-error.
C17_QueryEndsInOneTerminalState ==
    /\ [][StepsLeft(q_pc') < StepsLeft(q_pc)]_vars
    /\ [](q_pc # "done" => ENABLED NextQuery)
    /\ [](q_pc = "done" =>
            /\ Cardinality(TerminalStates) = 1
            /\ SoftMiss =>
                  /\ TerminalStates = {"no-relevant-results"}
                  /\ result.confidence = "0.0"
                  /\ result.citations = <<>>)

\* A query whose candidates all failed the filter
C17_Witness ==
    /\ SoftMiss
    /\ LastCall = "rerank"
    /\ search_result # <<>>
    /\ TerminalStates = {"no-relevant-results"}

\* The spans quoted in the answer, normalized, in order of appearance
QuotedSpanSeq ==
    LET groups == QuoteGroups(result.answer.details, 1)
    IN  [i \in 1..Len(groups) |-> NormalizeText(groups[i])]

\* C25: the citations of one query result have pairwise distinct
\* text_snippet values: a quoted span whose normalized text equals a quote
\* already verified yields no second citation, whichever excerpts contain it.
C25_CitationSnippetsAreDistinct ==
    q_pc = "done" =>
        \A i, j \in 1..Len(result.citations) :
            i # j => result.citations[i].text_snippet # result.citations[j].text_snippet

\* An answer quoting twice a text that two selected excerpts of different
\* documents contain, the two spans differing in whitespace only
C25_Witness ==
    /\ SynthesisPath
    /\ Len(result.citations) = 1
    /\ \E i, j \in 1..Len(QuotedSpanSeq) :
          /\ i # j
          /\ QuotedSpanSeq[i] = QuotedSpanSeq[j]
          /\ QuotedSpanSeq[i] = result.citations[1].text_snippet
          /\ QuoteGroups(result.answer.details, 1)[i]
                # QuoteGroups(result.answer.details, 1)[j]
    /\ \E e, f \in SelectedExcerpts :
          /\ e.document_id # f.document_id
          /\ Contains(e.text, result.citations[1].text_snippet)
          /\ Contains(f.text, result.citations[1].text_snippet)

\* The provider calls of the semantic pipeline, in the order they are made
Pipeline == <<"embed", "search", "rerank", "llm">>

\* The calls of this execution that follow the metadata lookup
PipelineCalls == SelectSeq(calls, LAMBDA c : c # "scroll")

\* C26: within one query the calls embed, vector search, rerank, language
\* model happen in that order, each at most once; rerank only if the search
\* returned a candidate, the language model only if the selection kept a
\* result, and no provider call after one that failed.
C26_ProviderCallsInOrder ==
    /\ Len(PipelineCalls) <= Len(Pipeline)
    /\ PipelineCalls = SubSeq(Pipeline, 1, Len(PipelineCalls))
    /\ ProviderCalls({"rerank"}) # {} => search_result # <<>>
    /\ ProviderCalls({"llm"}) # {} => relevant_results # <<>>
    /\ failed # "none" => (LastCall = failed /\ q_pc = "done")

\* A query answered by the language model after all four calls
C26_Witness ==
    /\ SynthesisPath
    /\ calls = Pipeline
    /\ result.citations # <<>>

\* The query was answered from the metadata lookup
MetadataPath == q_pc = "done" /\ failed = "none" /\ LastCall = "scroll"

\* The allowed documents with at least one point in the collection
StoredDocuments == {d \in document_ids : \E pt \in store : pt.document_id = d}

\* C28: on the metadata-shortcut path the answer lists every allowed document
\* that has at least one stored point exactly once, however many points each
\* allowed document has in the store.
C28_MetadataListsStoredDocumentsOnce ==
    MetadataPath =>
        \A d \in StoredDocuments :
            Cardinality({i \in 1..Len(result.answer.details) :
                            result.answer.details[i] = d}) = 1

\* C29: every citation returned has a non-empty text_snippet: a quoted span
\* that is empty or whitespace-only after normalization never becomes a
\* citation and never raises the confidence to 1.0.
C29_NoEmptySnippet ==
    q_pc = "done" =>
        /\ \A i \in 1..Len(result.citations) :
              result.citations[i].text_snippet # <<>>
        /\ (SynthesisPath /\ \A span \in QuotedSpans : span = <<>>) =>
              result.confidence # "1.0"

----------------------------------------------------------------------------
(* Claims about the selection step *)

SelectedDoc(k) == DocIdOf(search_result, relevant_results[k])

\* Every allowed document has a reranked result above the relevance floor
AllDocumentsHaveCandidates ==
    \A d \in document_ids :
        \E i \in 1..Len(reranked) :
            /\ DocIdOf(search_result, reranked[i]) = d
            /\ reranked[i].relevance_score > RelevanceFloor

\* The result at position k of the selection is the first of its document
IsFirstOfDocument(k) == \A j \in 1..(k - 1) : SelectedDoc(j) # SelectedDoc(k)

\* C4: when every allowed document has a candidate above the floor 0.01, the
\* selection holds a result of each allowed document, and every document's
\* first result comes before any document's second result.
C4_FairCoverage ==
    (q_pc = "selected" /\ AllDocumentsHaveCandidates) =>
        /\ \A d \in document_ids :
              \E k \in 1..Len(relevant_results) : SelectedDoc(k) = d
        /\ \A k, m \in 1..Len(relevant_results) :
              (IsFirstOfDocument(k) /\ ~IsFirstOfDocument(m)) => k < m

\* Three allowed documents, each with a candidate, one of them selected twice
C4_Witness ==
    /\ q_pc = "selected"
    /\ Cardinality(document_ids) = 3
    /\ AllDocumentsHaveCandidates
    /\ Len(relevant_results) > 3

\* C5: after both passes, for an allowed set of any size and every reranked
\* list, the selection holds at most 2 results per document and at most 15
\* results in total.
C5_SelectionCaps ==
    q_pc = "selected" =>
        /\ Len(relevant_results) <= TotalLimit
        /\ \A d \in document_ids :
              Cardinality({k \in 1..Len(relevant_results) : SelectedDoc(k) = d})
                  <= MaxPerDocument

\* C19: every result admitted by either selection pass has a relevance score
\* strictly above 0.01 and a document_id in the caller's allowed set, and no
\* result is in the selection twice.
C19_AdmittedResultsPassTheFilter ==
    q_pc = "selected" =>
        \A k \in 1..Len(relevant_results) :
            /\ relevant_results[k].relevance_score > RelevanceFloor
            /\ SelectedDoc(k) \in document_ids
            /\ \A j \in 1..Len(relevant_results) :
                  j # k => relevant_results[j] # relevant_results[k]

\* Both passes admitted a result of the same document and a result scored
\* exactly 0.01 was left out
C19_Witness ==
    /\ q_pc = "selected"
    /\ \E j, k \in 1..Len(relevant_results) : j # k /\ SelectedDoc(j) = SelectedDoc(k)
    /\ \E i \in 1..Len(reranked) :
          /\ reranked[i].relevance_score = RelevanceFloor
          /\ \A k \in 1..Len(relevant_results) : relevant_results[k] # reranked[i]

----------------------------------------------------------------------------
(* Claims about indexing *)

\* The last two runs both returned and were for the same pair
ReindexedTwice ==
    /\ indexing.pc = "idle"
    /\ Len(runs) >= 2
    /\ LET first == runs[Len(runs) - 1]
           second == runs[Len(runs)]
       IN  /\ first.outcome = "returned" /\ second.outcome = "returned"
           /\ first.document_id = second.document_id
           /\ first.contract_set_id = second.contract_set_id

\* C6: re-indexing the same (document_id, contract_set_id) twice in sequence
\* leaves exactly the second batch's points for the pair and none of the
\* first batch's, on every re-processing path (index_document, the preload
\* script) and also when the pre-delete step fails.
C6_ReindexReplaces ==
    ReindexedTwice =>
        LET first == runs[Len(runs) - 1]
            second == runs[Len(runs)]
        IN  {pt.id : pt \in MatchingPair(store, second.document_id,
                                         second.contract_set_id)}
                = second.upserted

\* The run that just ended was an index_document call that raised while
\* opening or processing the file
InputErrorRun ==
    /\ indexing.pc = "idle"
    /\ runs # <<>>
    /\ runs[Len(runs)].path = "index_document"
    /\ runs[Len(runs)].stage = "process"
    /\ runs[Len(runs)].outcome = "raised"

\* C16: when index_document fails because of an input error (an empty,
\* corrupt or unprocessable file) the vector store holds exactly the points it
\* held before the call; the points indexed earlier for that
\* (document_id, contract_set_id) are still there.
C16_InputErrorLeavesStoreUntouched ==
    InputErrorRun =>
        LET run == runs[Len(runs)]
        IN  /\ store = run.before
            /\ MatchingPair(run.before, run.document_id, run.contract_set_id)
                  \subseteq store

\* The finished index_document calls
IndexDocumentRuns == {k \in 1..Len(runs) : runs[k].path = "index_document"}

\* C22: in every index_document call the delete of the points of
\* (document_id, contract_set_id) is issued before any point of the new set is
\* upserted, and a failure of that delete is swallowed: the call goes on and,
\* if processing succeeds, still upserts the new set and returns.
C22_DeleteFirstAndSwallowed ==
    /\ indexing.path = "index_document" =>
          /\ indexing.pc = "delete" =>
                (indexing.delete = "none" /\ store = indexing.before)
          /\ indexing.pc \in {"process", "index_nodes"} =>
                indexing.delete \in {"done", "failed"}
    /\ \A k \in IndexDocumentRuns :
          /\ runs[k].delete \in {"done", "failed"}
          /\ runs[k].stage \in {"process", "index_nodes"}
          /\ runs[k].upserted # {} <=>
                (runs[k].outcome = "returned" /\ runs[k].n > 0)

\* An index_document call whose delete failed, with points of the pair in
\* the collection, has upserted its chunks and returned
C22_Witness ==
    /\ indexing.pc = "idle"
    /\ runs # <<>>
    /\ LET run == runs[Len(runs)]
       IN  /\ run.path = "index_document"
           /\ run.delete = "failed"
           /\ run.outcome = "returned"
           /\ run.upserted # {}
           /\ run.upserted \subseteq {pt.id : pt \in store}
           /\ \E pt \in run.before :
                 /\ pt.document_id = run.document_id
                 /\ pt.contract_set_id = run.contract_set_id

\* The run that just ended was an index operation (index_nodes or
\* store_chunks) that returned
BatchIndexed ==
    /\ indexing.pc = "idle"
    /\ runs # <<>>
    /\ runs[Len(runs)].stage \in {"index_nodes", "store_chunks"}
    /\ runs[Len(runs)].outcome = "returned"

\* C24: indexing a batch of n chunks adds exactly n new points, each under a
\* fresh identifier and carrying the version marker, and leaves every point
\* already in the store unchanged; for index_nodes and store_chunks, across
\* successive batches.
C24_BatchAddsFreshPoints ==
    BatchIndexed =>
        LET run == runs[Len(runs)]
            added == store \ run.at
        IN  /\ run.at \subseteq store
            /\ Cardinality(added) = run.n
            /\ \A pt \in added :
                  /\ pt.version = "1"
                  /\ \A old \in run.at : old.id # pt.id

\* The delete of an index_document call has succeeded
DeletedPair ==
    /\ indexing.path = "index_document"
    /\ indexing.pc = "process"
    /\ indexing.delete = "done"

\* C27: delete_document(d, s) removes exactly the points whose payload has
\* document_id = d and contract_set_id = s; every point of another document,
\* or of the same document_id under another contract_set_id, is left
\* unchanged.
C27_DeleteRemovesExactlyThePair ==
    DeletedPair =>
        store = {pt \in indexing.before :
                    \/ pt.document_id # indexing.document_id
                    \/ pt.contract_set_id # indexing.contract_set_id}

\* The collection held points of the same document under another contract
\* set when the delete ran, and holds them after it
C27_Witness ==
    /\ DeletedPair
    /\ \E pt \in indexing.before :
          /\ pt.document_id = indexing.document_id
          /\ pt.contract_set_id # indexing.contract_set_id
          /\ pt \in store

----------------------------------------------------------------------------
(* Claims about the collection bootstrap *)

\* At least one bootstrap has run, none is in progress, and none raised
Bootstrapped ==
    /\ boot.pc = "idle"
    /\ boots # <<>>
    /\ \A k \in 1..Len(boots) : boots[k].outcome = "returned"

----------------------------------------------------------------------------
(* Claims about a query concurrent with a re-index *)

\* The vector search of the query returned while index_document, called for
\* the one document the query covers, was between its delete and its upsert
SearchedInsideReindex ==
    /\ searched_at.pc \in {"process", "index_nodes"}
    /\ searched_at.delete = "done"
    /\ document_ids = {searched_at.document_id}
    /\ failed = "none"

\* C18: a query concurrent with the re-index of the same document can have its
\* vector search run between the re-index's delete and its insert; the search
\* then observes an empty result set, and the query ends with the "no relevant
\* information" answer, for a document that is fully indexed before the
\* re-index starts and after it ends.
C18_SearchInsideReindexSeesNothing ==
    SearchedInsideReindex =>
        /\ search_result = <<>>
        /\ q_pc = "done"
        /\ result.answer.message
              = "No relevant information found in the selected documents."
        /\ result.confidence = "0.0"

\* The interleaving: the document had points before the re-index, the search
\* ran inside it and found nothing, and the re-index then returned with the
\* new points in the collection
C18_Witness ==
    /\ SearchedInsideReindex
    /\ search_result = <<>>
    /\ indexing.pc = "idle"
    /\ runs # <<>>
    /\ LET run == runs[Len(runs)]
       IN  /\ run.outcome = "returned"
           /\ run.document_id \in document_ids
           /\ MatchingPair(run.before, run.document_id, run.contract_set_id) # {}
           /\ run.upserted # {}
           /\ run.upserted = {pt.id : pt \in MatchingAny(store, document_ids)}

====
